---- MODULE Spec2Model ----
(***************************************************************************)
(* The duel Room of the game server (src/cmd/game/main.go): two players,   *)
(* the Room record guarded by Room.Mu, and the goroutines that touch it    *)
(* (one connection reader per human player, the room start task, the bot   *)
(* attack timers and the bot save task).  One action is one critical       *)
(* section of Room.Mu, or one unlocked statement group of a handler.       *)
(***************************************************************************)
EXTENDS Integers, Sequences, FiniteSets, TLC

\* ------------------------------------------------------------------ bounds
\* Longest rolls array a client puts into one save_rolls message.
MaxClientRolls == 3
\* scheduleAIAttack goroutines alive at the same time, asleep or running.
MaxAITasks == 1
\* Highest strength and toughness the wound target is evaluated for.
MaxStat == 12
\* Strongest armour penetration (AP = -MaxAP) a save threshold is evaluated for.
MaxAP == 4
\* Dice expressions: highest count N, sides M and modifier K evaluated.
MaxDiceCount == 2
MaxSides == 6
MaxMod == 3
\* Attacks of the weapon profiles ResolveShooting is evaluated for.
MaxAttacks == 1
\* choose messages the two clients send after the Room was created.
MaxChoose == 1
\* Participants connected to the server (matchmaking).
MaxParticipants == 3
\* queue messages the participants send in all (matchmaking).
MaxQueueMsgs == 3
\* PvP matches of the API server: player names, request handlers running at
\* the same time, matches created, HP a player enters with, damage of one
\* action, accepted actions per match.
MaxPvPPlayers == 3
MaxHandlers == 2
MaxPvPMatches == 2
MaxPvPHP == 1
MaxPvPDamage == 1
MaxPvPActions == 2
\* matchmake requests the PvP players send in all.
MaxMatchmakes == 3
\* Attacks the auto-resolving Room of the API server runs.
MaxAutoTurns == 4

\* --------------------------------------------------------------- constants
NoPlayer == 0
PID == {1, 2}
D6 == 1..6
Nil == <<>>

\* max, min, clamp: integer helpers of the game server.
max(a, b) == IF a > b THEN a ELSE b
min(a, b) == IF a < b THEN a ELSE b
clamp(lo, hi, v) == IF v < lo THEN lo ELSE IF v > hi THEN hi ELSE v

\* ----------------------------------------------------------------- catalog
\* A Weapon value; AttacksExpr is <<>> for "" or <<n, m, k>> for "nDm+k".
Bolter ==
  [Name |-> "bolter", Attacks |-> 2, AttacksExpr |-> <<>>, BS |-> 3, S |-> 4,
   AP |-> 0, D |-> 1, LethalHits |-> FALSE, TwinLinked |-> FALSE,
   Torrent |-> FALSE, DevastatingWounds |-> FALSE, SustainedHits |-> 0,
   AntiTag |-> "", AntiValue |-> 0]
Lance ==
  [Name |-> "lance", Attacks |-> 2, AttacksExpr |-> <<>>, BS |-> 3, S |-> 8,
   AP |-> 2, D |-> 1, LethalHits |-> FALSE, TwinLinked |-> FALSE,
   Torrent |-> FALSE, DevastatingWounds |-> TRUE, SustainedHits |-> 0,
   AntiTag |-> "", AntiValue |-> 0]
NoWeapon ==
  [Name |-> "", Attacks |-> 0, AttacksExpr |-> <<>>, BS |-> 0, S |-> 0,
   AP |-> 0, D |-> 0, LethalHits |-> FALSE, TwinLinked |-> FALSE,
   Torrent |-> FALSE, DevastatingWounds |-> FALSE, SustainedHits |-> 0,
   AntiTag |-> "", AntiValue |-> 0]

\* The zero Unit of a Player that has not chosen yet.
NoUnit ==
  [Name |-> "", W |-> 0, T |-> 0, Sv |-> 0, InvSv |-> 0, FNP |-> 0,
   DamageRed |-> 0, Keywords |-> {}, Weapons |-> <<>>]
Guard ==
  [Name |-> "guard", W |-> 1, T |-> 4, Sv |-> 4, InvSv |-> 0, FNP |-> 0,
   DamageRed |-> 0, Keywords |-> {"infantry"}, Weapons |-> <<Bolter>>]
Knight ==
  [Name |-> "knight", W |-> 3, T |-> 4, Sv |-> 3, InvSv |-> 0, FNP |-> 5,
   DamageRed |-> 1, Keywords |-> {"vehicle"}, Weapons |-> <<Lance, Bolter>>]
\* The units FetchUnits returns for the faction, in its (sorted) order.
Units == <<Guard, Knight>>
UnitSet == {Units[i] : i \in DOMAIN Units}

\* The choose messages a client sends: unit, weapons and active weapon.
ChooseMsgs ==
  {[unit |-> "guard", weapons |-> <<"bolter">>, weapon |-> ""],
   [unit |-> "knight", weapons |-> <<"lance", "bolter">>, weapon |-> ""]}

\* findUnit: the unit of that name, else the first unit of the faction.
findUnit(name) ==
  IF \E i \in DOMAIN Units : Units[i].Name = name
  THEN Units[CHOOSE i \in DOMAIN Units : Units[i].Name = name]
  ELSE Units[1]

\* weaponByName, with resolveWeaponStep's fallback to the unit's first weapon.
weaponByName(u, name) ==
  IF \E i \in DOMAIN u.Weapons : u.Weapons[i].Name = name
  THEN LET i == CHOOSE j \in DOMAIN u.Weapons :
                  /\ u.Weapons[j].Name = name
                  /\ \A k \in DOMAIN u.Weapons : u.Weapons[k].Name = name => j <= k
       IN u.Weapons[i]
  ELSE IF Len(u.Weapons) > 0 THEN u.Weapons[1] ELSE NoWeapon

woundNeeded_above(S, T) ==
  IF S > 2 * T THEN 2
  ELSE IF S > T THEN 3
  ELSE IF S = T THEN 4
  ELSE IF S * 2 <= T THEN 6
  ELSE 5
woundNeeded(S, T) ==
  IF S >= 2 * T THEN 2
  ELSE IF S > T THEN 3
  ELSE IF S = T THEN 4
  ELSE IF S * 2 <= T THEN 6
  ELSE 5

\* The unit findUnit falls back to when the faction cannot be fetched (a
\* Player that never sent choose has an empty faction).
FallbackW == 10
FallbackBolter ==
  [Name |-> "Bolter", Attacks |-> 2, AttacksExpr |-> <<>>, BS |-> 4, S |-> 4,
   AP |-> 0, D |-> 1, LethalHits |-> FALSE, TwinLinked |-> FALSE,
   Torrent |-> FALSE, DevastatingWounds |-> FALSE, SustainedHits |-> 0,
   AntiTag |-> "", AntiValue |-> 0]
FallbackUnit ==
  [Name |-> "", W |-> FallbackW, T |-> 4, Sv |-> 4, InvSv |-> 0, FNP |-> 0,
   DamageRed |-> 0, Keywords |-> {}, Weapons |-> <<FallbackBolter>>]

\* ------------------------------------------------------------------- state
VARIABLES
  IsAI,           \* Player.IsAI
  Ready,          \* Player.Ready
  Loadout,        \* Player.Loadout (Weapons, Weapon)
  Unit,           \* Player.Unit
  Wounds,         \* Player.Wounds
  Turn,           \* Room.Turn (NoPlayer is "")
  Finished,       \* Room.Finished
  Winner,         \* Room.Winner
  Phase,          \* Room.Phase: "", "attack" or "save"
  PendingSaves,   \* Room.PendingSaves
  PendingNeed,    \* Room.PendingNeed
  PendingDmg,     \* Room.PendingDmg
  PendingBy,      \* Room.PendingBy
  AttackQueue,    \* Room.AttackQueue (Nil is nil)
  AttackIndex,    \* Room.AttackIndex, 0-based
  CurrentWeapon,  \* Room.CurrentWeapon
  Mu,             \* Room.Mu: the goroutine holding the lock, or NoThread
  pc,             \* position of each goroutine
  loc,            \* local variables of each goroutine
  timers,         \* scheduleAIAttack goroutines still in their delay
  chooses,        \* choose messages received since the Room was created
  last,           \* the last operation on the Room and its outcome
  trace,          \* weapon names rolled for in the current sequence
  conn,           \* Player.Conn of each participant is open (wsReader runs)
  WantsAI,        \* Player.WantsAI of each participant
  matchQueue,     \* the channel matchQueue: participants waiting, in order
  mmPc,           \* position of the matchmaker goroutine
  mmP1,           \* matchmaker: its local p1
  rooms,          \* the map rooms, in order of creation
  playersIndex,   \* playersIndex: participant -> its room (0: no entry)
  queueMsgs,      \* queue messages received so far
  crashed,        \* the server process ended in a panic
  fn,             \* pure functions: the function under evaluation
  args,           \* ... its arguments
  ret,            \* ... what it returned (<<>> before the call)
  pvpQueue,       \* PvPMatchmaker.queue: the names waiting
  pvpMatches,     \* PvPMatchmaker.matches, in order of creation
  pvpPhase,       \* lobby phase of each PvP player
  hnd,            \* PvP request handlers: position and local variables
  accepted,       \* per PvP match: the players of its accepted actions
  hpUpdates,      \* per PvP match: assignments to a defender's HP
  matchmakes,     \* matchmake requests received so far
  autoUnit,       \* auto-resolving Room: the unit of each player
  autoWounds,     \* auto-resolving Room: Player.Wounds
  CurrentPlayer,  \* auto-resolving Room: Room.CurrentPlayer
  autoWinner,     \* auto-resolving Room: Room.Winner (0 is "")
  autoTurn        \* auto-resolving Room: Room.Turn

\* The variables of one Room's duel and those of the matchmaking.
lobby == <<conn, WantsAI, matchQueue, mmPc, mmP1, rooms, playersIndex,
           queueMsgs, crashed>>

duel == <<IsAI, Ready, Loadout, Unit, Wounds, Turn, Finished, Winner, Phase,
          PendingSaves, PendingNeed, PendingDmg, PendingBy, AttackQueue,
          AttackIndex, CurrentWeapon, Mu, pc, loc, timers, chooses, last,
          trace>>

\* The variables of the evaluation of a pure function.
calc == <<fn, args, ret>>

\* The variables of the API server: its PvP matches and its auto-resolving
\* Room.
pvp == <<pvpQueue, pvpMatches, pvpPhase, hnd, accepted, hpUpdates,
         matchmakes>>
auto == <<autoUnit, autoWounds, CurrentPlayer, autoWinner, autoTurn>>
api == <<pvp, auto>>

vars == <<duel, lobby, calc, api>>

players == <<IsAI, Ready, Loadout, Unit, Wounds>>
pending == <<PendingSaves, PendingNeed, PendingDmg, PendingBy>>
sequence == <<AttackQueue, AttackIndex, CurrentWeapon>>
outcome == <<Finished, Winner>>
room == <<Turn, Phase, pending, sequence, outcome>>

\* Goroutines: the connection reader of each player, the room start task,
\* the bot save task and the bot attack timers.
Reader(p) == <<"rd", p>>
Loop == <<"loop", 0>>
SaveTask == <<"sv", 0>>
AtkTasks == {<<"atk", i>> : i \in 1..MaxAITasks}
Threads == {Reader(p) : p \in PID} \cup {Loop, SaveTask} \cup AtkTasks
NoThread == <<"", 0>>

Other(p) == IF p = 1 THEN 2 ELSE 1

NoLoc ==
  [attacker |-> NoPlayer, weapon |-> "", wep |-> NoWeapon, hits |-> 0,
   wounds |-> 0, mortals |-> 0, before |-> 0, count |-> 0,
   roll1 |-> 0, roll2 |-> 0]

\* The normalisation of a choose message's weapon selection.
Normalize(ws, w) ==
  [Weapons |-> IF Len(ws) = 0 /\ w # "" THEN <<w>> ELSE ws,
   Weapon  |-> IF w = "" /\ Len(ws) > 0 THEN ws[1] ELSE w]

NoLoadout == [Weapons |-> <<>>, Weapon |-> ""]

\* makeAIPlayer: a bot is ready, has a unit and its default weapon selected.
makeAIPlayer(u) ==
  [Ready |-> TRUE, Unit |-> u, Wounds |-> u.W,
   Loadout |-> [Weapons |-> <<u.Weapons[1].Name>>, Weapon |-> u.Weapons[1].Name]]

\* A human Player when the Room is created: it has either not chosen yet or
\* sent choose while in the lobby.
HumanStarts ==
  {[Ready |-> FALSE, Unit |-> NoUnit, Wounds |-> 0, Loadout |-> NoLoadout]}
  \cup {[Ready |-> FALSE, Unit |-> findUnit(m.unit), Wounds |-> findUnit(m.unit).W,
         Loadout |-> Normalize(m.weapons, m.weapon)] : m \in ChooseMsgs}

\* ---- Matchmaking: the participants, the queue and the rooms ----

Participants == 1..MaxParticipants

\* The Player makeAIPlayer returns; its ID is none of the participants'.
Bot == MaxParticipants + 1

\* playersIndex has no entry for the participant: wsReader's r is nil.
NoRoom == 0

\* Capacity of the channel matchQueue.
matchQueueCap == 32

\* No pure function is under evaluation.
CalcIdle ==
  /\ fn = ""
  /\ args = <<>>
  /\ ret = <<>>

\* PvP players (names), the request handlers, and a handler between two
\* requests.
PvPPlayers == 1..MaxPvPPlayers
Handlers == 1..MaxHandlers
NoMatch == 0
IdleHandler == [pc |-> "idle", player |-> NoPlayer, opp |-> NoPlayer,
                match |-> NoMatch]

\* The PvP matchmaker as newPvPMatchmaker returns it.
PvPInit ==
  /\ pvpQueue = {}
  /\ pvpMatches = <<>>
  /\ pvpPhase = [p \in PvPPlayers |-> "idle"]
  /\ hnd = [h \in Handlers |-> IdleHandler]
  /\ accepted = <<>>
  /\ hpUpdates = <<>>
  /\ matchmakes = 0

\* No auto-resolving Room exists.
AutoIdle ==
  /\ autoUnit = <<>>
  /\ autoWounds = <<>>
  /\ CurrentPlayer = 0
  /\ autoWinner = 0
  /\ autoTurn = 0

\* The API server is not part of the run.
ApiIdle == PvPInit /\ AutoIdle

\* The server starts with no connection closed, nobody queued, no Room.
LobbyInit ==
  /\ conn = [p \in Participants |-> TRUE]
  /\ WantsAI = [p \in Participants |-> FALSE]
  /\ matchQueue = <<>>
  /\ mmPc = "recv"
  /\ mmP1 = NoPlayer
  /\ rooms = <<>>
  /\ playersIndex = [p \in Participants \cup {Bot} |-> NoRoom]
  /\ queueMsgs = 0
  /\ crashed = FALSE

\* createRoom(p1, p2): p1 is human, p2 is human or a bot.
Init ==
  /\ \E ai \in BOOLEAN, s1 \in HumanStarts,
        s2 \in HumanStarts \cup {makeAIPlayer(u) : u \in UnitSet} :
       /\ ai <=> s2.Ready
       /\ IsAI = [p \in PID |-> p = 2 /\ ai]
       /\ Ready = [p \in PID |-> IF p = 1 THEN s1.Ready ELSE s2.Ready]
       /\ Loadout = [p \in PID |-> IF p = 1 THEN s1.Loadout ELSE s2.Loadout]
       /\ Unit = [p \in PID |-> IF p = 1 THEN s1.Unit ELSE s2.Unit]
       /\ Wounds = [p \in PID |-> IF p = 1 THEN s1.Wounds ELSE s2.Wounds]
       /\ pc = [t \in Threads |->
                  IF t = Loop THEN "wait"
                  ELSE IF t = Reader(1) \/ (t = Reader(2) /\ ~ai) THEN "idle"
                  ELSE "none"]
  /\ Turn = NoPlayer
  /\ Finished = FALSE
  /\ Winner = NoPlayer
  /\ Phase = ""
  /\ PendingSaves = 0
  /\ PendingNeed = 0
  /\ PendingDmg = 0
  /\ PendingBy = NoPlayer
  /\ AttackQueue = Nil
  /\ AttackIndex = 0
  /\ CurrentWeapon = ""
  /\ Mu = NoThread
  /\ loc = [t \in Threads |-> NoLoc]
  /\ timers = 0
  /\ chooses = 0
  /\ last = [op |-> "create", by |-> NoPlayer, res |-> "", sent |-> 0, rolled |-> 0]
  /\ trace = <<>>
  /\ LobbyInit
  /\ CalcIdle /\ ApiIdle

\* Where a goroutine is after its handler returned.
EndPc(t) == IF t[1] = "rd" THEN "idle" ELSE "none"

Done(t) == [pc EXCEPT ![t] = EndPc(t)]

\* The scheduleAIAttack goroutines alive once goroutine t has returned.
Alive(t) == timers + Cardinality({a \in AtkTasks : Done(t)[a] # "none"})

\* go func() of scheduleAIAttack, called last by goroutine t: t returns and
\* one more timer goroutine sleeps.
Spawn(t) ==
  /\ Alive(t) < MaxAITasks
  /\ timers' = timers + 1
  /\ pc' = Done(t)

\* ------------------------------------------------- wsReader, unlocked cases
\* case "choose": p.Loadout = sel; p.Unit = findUnit(...); p.Wounds = p.Unit.W.
Choose(p, name, ws, w) ==
  /\ pc[Reader(p)] = "idle"
  /\ UNCHANGED <<lobby, calc, api>>
  /\ chooses < MaxChoose
  /\ chooses' = chooses + 1
  /\ Loadout' = [Loadout EXCEPT ![p] = Normalize(ws, w)]
  /\ Unit' = [Unit EXCEPT ![p] = findUnit(name)]
  /\ Wounds' = [Wounds EXCEPT ![p] = findUnit(name).W]
  /\ last' = [op |-> "choose", by |-> p, res |-> "", sent |-> 0, rolled |-> 0]
  /\ UNCHANGED <<IsAI, Ready, room, Mu, pc, loc, timers, trace>>

\* case "ready".
ReadyMsg(p) ==
  /\ pc[Reader(p)] = "idle"
  /\ UNCHANGED <<lobby, calc, api>>
  /\ ~Ready[p]
  /\ Ready' = [Ready EXCEPT ![p] = TRUE]
  /\ last' = [op |-> "ready", by |-> p, res |-> "", sent |-> 0, rolled |-> 0]
  /\ UNCHANGED <<IsAI, Loadout, Unit, Wounds, room, Mu, pc, loc, timers,
                 chooses, trace>>

\* -------------------------------------------------------------- roomLoop
\* The wait loop: leaves when both players are ready.
LoopWait ==
  /\ pc[Loop] = "wait"
  /\ UNCHANGED <<lobby, calc, api>>
  /\ Ready[1] /\ Ready[2]
  /\ pc' = [pc EXCEPT ![Loop] = "init"]
  /\ last' = [op |-> "start", by |-> NoPlayer, res |-> "ready", sent |-> 0, rolled |-> 0]
  /\ UNCHANGED <<players, room, Mu, loc, timers, chooses, trace>>

\* Initialize: a Player without a unit gets findUnit's unit, a Player with
\* 0 wounds gets the starting wounds of its unit.
InitPlayer(u, w) ==
  LET u1 == IF u.Name = "" THEN FallbackUnit ELSE u
  IN [Unit |-> u1, Wounds |-> IF w = 0 THEN u1.W ELSE w]

LoopInit ==
  /\ pc[Loop] = "init"
  /\ UNCHANGED <<lobby, calc, api>>
  /\ Unit' = [p \in PID |-> InitPlayer(Unit[p], Wounds[p]).Unit]
  /\ Wounds' = [p \in PID |-> InitPlayer(Unit[p], Wounds[p]).Wounds]
  /\ pc' = [pc EXCEPT ![Loop] = "rolloff"]
  /\ last' = [op |-> "start", by |-> NoPlayer, res |-> "init", sent |-> 0, rolled |-> 0]
  /\ UNCHANGED <<IsAI, Ready, Loadout, room, Mu, loc, timers, chooses, trace>>

\* Roll-off: roll1, roll2 := d6(), d6(), at first and again on each turn of
\* the loop for roll1 == roll2.
LoopRollOff ==
  /\ pc[Loop] = "rolloff"
  /\ UNCHANGED <<lobby, calc, api>>
  /\ \E roll1 \in D6, roll2 \in D6 :
       loc' = [loc EXCEPT ![Loop].roll1 = roll1, ![Loop].roll2 = roll2]
  /\ pc' = [pc EXCEPT ![Loop] = "first"]
  /\ last' = [op |-> "start", by |-> NoPlayer, res |-> "roll", sent |-> 0, rolled |-> 0]
  /\ UNCHANGED <<players, room, Mu, timers, chooses, trace>>

\* first := r.P1; if roll2 > roll1 { first = r.P2 }.
first_lower(roll1, roll2) == IF roll2 < roll1 THEN 2 ELSE 1
first(roll1, roll2) == IF roll2 > roll1 THEN 2 ELSE 1

\* The test of the roll-off loop: equal dice are drawn again; unequal dice
\* give the turn to first, and roomLoop ends with scheduleAIAttack(r, 1500).
LoopFirst ==
  /\ pc[Loop] = "first"
  /\ UNCHANGED <<lobby, calc, api>>
  /\ IF loc[Loop].roll1 = loc[Loop].roll2
     THEN /\ pc' = [pc EXCEPT ![Loop] = "rolloff"]
          /\ last' = [op |-> "start", by |-> NoPlayer, res |-> "redraw", sent |-> 0, rolled |-> 0]
          /\ UNCHANGED <<Turn, loc, timers>>
     ELSE /\ Turn' = first(loc[Loop].roll1, loc[Loop].roll2)
          /\ loc' = [loc EXCEPT ![Loop] = NoLoc]
          /\ Spawn(Loop)
          /\ last' = [op |-> "start", by |-> NoPlayer, res |-> "rolloff", sent |-> 0, rolled |-> 0]
  /\ UNCHANGED <<players, Phase, pending, sequence, outcome, Mu, chooses, trace>>

\* ----------------------------------------------------------------- dice
RECURSIVE SumTo(_, _)
SumTo(f, n) == IF n = 0 THEN 0 ELSE f[n] + SumTo(f, n - 1)

\* Number of dice of the array rolls that are below need.
Unsaved(rolls, need) ==
  SumTo([i \in DOMAIN rolls |-> IF rolls[i] < need THEN 1 ELSE 0], Len(rolls))

\* rollDiceExprDetails / the attacks branch of resolveWeaponStep: the
\* attack counts a weapon can come to (n dice of m sides plus k, at least 1).
AttackCounts(wep) ==
  IF wep.AttacksExpr = <<>> THEN {max(1, wep.Attacks)}
  ELSE LET n == wep.AttacksExpr[1]
           m == wep.AttacksExpr[2]
           k == wep.AttacksExpr[3]
       IN {max(1, max(1, tot)) : tot \in (n + k)..(n * m + k)}

\* The hit loop: hits of the array rolls, with Torrent and Sustained Hits.
HitCount(wep, rolls) ==
  LET hitNeed == clamp(2, 6, wep.BS)
  IN IF wep.Torrent THEN Len(rolls)
     ELSE SumTo([i \in DOMAIN rolls |->
                   IF rolls[i] >= hitNeed
                   THEN 1 + (IF wep.SustainedHits > 0 /\ rolls[i] = 6
                             THEN wep.SustainedHits ELSE 0)
                   ELSE 0], Len(rolls))

\* The wound threshold of the volley (Anti lowers it whatever the target).
WoundTarget(wep, def) ==
  LET nat == woundNeeded(wep.S, def.T)
  IN IF wep.AntiValue >= 2 THEN min(nat, wep.AntiValue) ELSE nat

\* One pass of the wound loop: what a hit becomes, given its roll and the
\* Twin-linked re-roll.
WoundKind(wep, target, roll, roll2) ==
  IF wep.LethalHits /\ roll = 6 THEN "auto"
  ELSE LET rerolled == roll < target /\ wep.TwinLinked
           final == IF rerolled THEN roll2 ELSE roll
       IN IF final >= target
          THEN IF wep.DevastatingWounds /\ final = 6 THEN "mortal" ELSE "wound"
          ELSE "fail"

Rerolls(wep) == IF wep.TwinLinked THEN D6 ELSE {1}

CountKind(wep, target, rolls, rolls2, kinds) ==
  SumTo([i \in DOMAIN rolls |->
           IF WoundKind(wep, target, rolls[i], rolls2[i]) \in kinds
           THEN 1 ELSE 0], Len(rolls))

\* The hit counts the attack and hit rolls of one volley can come to.
HitOutcomes(wep) ==
  UNION {{HitCount(wep, rolls) : rolls \in [1..attacks -> D6]} :
           attacks \in AttackCounts(wep)}

\* The <<wounds, mortals>> the wound rolls for n hits can come to.
WoundOutcomes(wep, target, n) ==
  {<<CountKind(wep, target, rolls, rolls2, {"wound", "auto"}),
     max(1, wep.D) * CountKind(wep, target, rolls, rolls2, {"mortal"})>> :
     rolls \in [1..n -> D6], rolls2 \in [1..n -> Rerolls(wep)]}

\* Saves: best of armour (worsened by AP) and invulnerable save.
SaveNeed(wep, def) ==
  LET armourNeed == clamp(2, 6, def.Sv + wep.AP)
  IN IF def.InvSv > 0 THEN min(armourNeed, def.InvSv) ELSE armourNeed

\* Feel No Pain: one d6 per point of damage, each at or above the threshold
\* ignores one point, so any number from 0 to dmg is ignored.
Ignored(def, dmg) == IF def.FNP >= 2 /\ dmg > 0 THEN 0..dmg ELSE {0}

\* ------------------------------------------------ roomStartAttackSequence
\* The first guard: the Room is over or it is not the requester's turn.
NotTurn_noTurn(p) == Finished
NotTurn(p) == Finished \/ Turn # p

\* The second guard: saves are pending or a sequence is mid-flight.
SequenceBusy_never == FALSE
SequenceBusy_noQueue == Phase = "save"
SequenceBusy ==
  Phase = "save" \/ (AttackQueue # Nil /\ AttackIndex < Len(AttackQueue))

\* The queue built from the selected weapons, else the active weapon.
BuildQueue(lo) ==
  IF Len(lo.Weapons) = 0 /\ lo.Weapon # "" THEN <<lo.Weapon>> ELSE lo.Weapons

roomStartAttackSequence(t, p) ==
  /\ Mu = NoThread
  /\ IF NotTurn(p)
     THEN /\ pc' = Done(t)
          /\ loc' = [loc EXCEPT ![t] = NoLoc]
          /\ last' = [op |-> "attack", by |-> p, res |-> "not_turn", sent |-> 0, rolled |-> 0]
          /\ UNCHANGED <<room, trace>>
     ELSE IF SequenceBusy
     THEN /\ pc' = Done(t)
          /\ loc' = [loc EXCEPT ![t] = NoLoc]
          /\ last' = [op |-> "attack", by |-> p, res |-> "busy", sent |-> 0, rolled |-> 0]
          /\ UNCHANGED <<room, trace>>
     ELSE IF Len(BuildQueue(Loadout[p])) = 0
     THEN /\ Phase' = "attack"
          /\ pc' = Done(t)
          /\ loc' = [loc EXCEPT ![t] = NoLoc]
          /\ last' = [op |-> "attack", by |-> p, res |-> "no_weapons", sent |-> 0, rolled |-> 0]
          /\ UNCHANGED <<Turn, pending, sequence, outcome, trace>>
     ELSE LET queue == BuildQueue(Loadout[p])
          IN /\ Phase' = "attack"
             /\ AttackQueue' = queue
             /\ AttackIndex' = 0
             /\ CurrentWeapon' = queue[1]
             /\ pc' = [pc EXCEPT ![t] = "rws_top"]
             /\ loc' = [loc EXCEPT ![t] =
                          [NoLoc EXCEPT !.attacker = p, !.weapon = queue[1]]]
             /\ trace' = <<>>
             /\ last' = [op |-> "attack", by |-> p, res |-> "accepted", sent |-> 0, rolled |-> 0]
             /\ UNCHANGED <<Turn, pending, outcome>>
  /\ UNCHANGED <<players, Mu, timers, chooses>>

\* wsReader, case "attack".
AttackMsg(p) ==
  /\ pc[Reader(p)] = "idle"
  /\ UNCHANGED <<lobby, calc, api>>
  /\ roomStartAttackSequence(Reader(p), p)

\* ------------------------------------------------------- resolveWeaponStep
\* Turn passes to the other player.
FlipTurn == IF Turn = 1 THEN 2 ELSE 1

\* The cursor moves on when another weapon is left in the queue.
HasNext_never == FALSE
HasNext == AttackQueue # Nil /\ AttackIndex + 1 < Len(AttackQueue)

\* Up to the first unlock: the guards, the attack count and the hit rolls.
RwsTop(t) ==
  LET a == loc[t].attacker
      wep == weaponByName(Unit[a], loc[t].weapon)
  IN /\ pc[t] = "rws_top"
     /\ UNCHANGED <<lobby, calc, api>>
     /\ Mu = NoThread
     /\ IF Finished \/ Turn # a
        THEN /\ pc' = Done(t)
             /\ loc' = [loc EXCEPT ![t] = NoLoc]
             /\ last' = [op |-> "resolve", by |-> a, res |-> "stale", sent |-> 0, rolled |-> 0]
             /\ UNCHANGED trace
        ELSE IF wep = NoWeapon
        THEN /\ pc' = Done(t)
             /\ loc' = [loc EXCEPT ![t] = NoLoc]
             /\ last' = [op |-> "resolve", by |-> a, res |-> "no_weapon", sent |-> 0, rolled |-> 0]
             /\ UNCHANGED trace
        ELSE /\ \E hits \in HitOutcomes(wep) :
                  loc' = [loc EXCEPT ![t].wep = wep, ![t].hits = hits]
             /\ pc' = [pc EXCEPT ![t] = "rws_wound"]
             /\ trace' = Append(trace, loc[t].weapon)
             /\ last' = [op |-> "resolve", by |-> a, res |-> "hits", sent |-> 0, rolled |-> 0]
     /\ UNCHANGED <<players, room, Mu, timers, chooses>>

\* Between the two animation pauses: the wound rolls.
RwsWound(t) ==
  LET a == loc[t].attacker
      wep == loc[t].wep
      target == WoundTarget(wep, Unit[Other(a)])
      n == loc[t].hits
  IN /\ pc[t] = "rws_wound"
     /\ UNCHANGED <<lobby, calc, api>>
     /\ Mu = NoThread
     /\ \E o \in WoundOutcomes(wep, target, n) :
          loc' = [loc EXCEPT ![t].hits = 0, ![t].wounds = o[1], ![t].mortals = o[2]]
     /\ pc' = [pc EXCEPT ![t] = "rws_res"]
     /\ last' = [op |-> "resolve", by |-> a, res |-> "wounds", sent |-> 0, rolled |-> 0]
     /\ UNCHANGED <<players, room, Mu, timers, chooses, trace>>

\* go func() of the bot defender's delayed save.
SpawnSave_never(t, def) == Done(t)
SpawnSave(t, def) ==
  IF IsAI[def] THEN [Done(t) EXCEPT ![SaveTask] = "sv_read"] ELSE Done(t)

\* The Room enters the save phase with the pending-save record.
EnterSave(t, a, wounds, wep, def) ==
  /\ Phase' = "save"
  /\ PendingSaves' = wounds
  /\ PendingNeed' = SaveNeed(wep, Unit[def])
  /\ PendingDmg' = max(1, wep.D)
  /\ PendingBy' = a
  /\ pc' = SpawnSave(t, def)
  /\ loc' = [loc EXCEPT ![t] = NoLoc]

\* After the second pause: no wounds ends the weapon (next weapon or turn
\* flip); wounds lead to the save phase, after the mortal damage if any.
RwsResolve(t) ==
  LET a == loc[t].attacker
      def == Other(a)
      next == IF HasNext THEN AttackQueue[AttackIndex + 2] ELSE ""
  IN /\ pc[t] = "rws_res"
     /\ UNCHANGED <<lobby, calc, api>>
     /\ Mu = NoThread
     /\ IF loc[t].wounds <= 0
        THEN /\ IF HasNext
                THEN /\ AttackIndex' = AttackIndex + 1
                     /\ CurrentWeapon' = next
                     /\ UNCHANGED <<Turn, AttackQueue>>
                ELSE /\ Turn' = FlipTurn
                     /\ AttackQueue' = Nil
                     /\ AttackIndex' = 0
                     /\ CurrentWeapon' = ""
             /\ IF next # ""
                THEN /\ pc' = [pc EXCEPT ![t] = "rws_top"]
                     /\ loc' = [loc EXCEPT ![t] =
                                  [NoLoc EXCEPT !.attacker = a, !.weapon = next]]
                     /\ UNCHANGED timers
                ELSE /\ Spawn(t)
                     /\ loc' = [loc EXCEPT ![t] = NoLoc]
             /\ last' = [op |-> "resolve", by |-> a, res |-> "no_wounds", sent |-> 0, rolled |-> 0]
             /\ UNCHANGED <<players, Phase, pending, outcome, Mu>>
        ELSE IF loc[t].mortals > 0
        THEN /\ Mu' = t
             /\ loc' = [loc EXCEPT ![t].before = Wounds[def]]
             /\ pc' = [pc EXCEPT ![t] = "rws_mortal"]
             /\ last' = [op |-> "resolve", by |-> a, res |-> "mortal_load", sent |-> 0, rolled |-> 0]
             /\ UNCHANGED <<players, room, timers>>
        ELSE /\ EnterSave(t, a, loc[t].wounds, loc[t].wep, def)
             /\ last' = [op |-> "resolve", by |-> a, res |-> "save", sent |-> 0, rolled |-> 0]
             /\ UNCHANGED <<players, Turn, sequence, outcome, Mu, timers>>
     /\ UNCHANGED <<chooses, trace>>

\* if defender.Wounds <= 0: the defender is destroyed.
Destroyed_negative(left) == left < 0
Destroyed(left) == left <= 0

\* The wounds the mortal damage can leave of before: Feel No Pain applies,
\* damage reduction does not.
MortalOutcomes(def, mortals, before) ==
  {max(0, before - max(0, mortals - ignored)) : ignored \in Ignored(def, mortals)}

\* Devastating Wounds: the mortal damage is taken off the defender's wounds
\* as read before, then the save phase is entered and the lock released.
RwsMortal(t) ==
  LET a == loc[t].attacker
      def == Other(a)
  IN /\ pc[t] = "rws_mortal"
     /\ UNCHANGED <<lobby, calc, api>>
     /\ Mu = t
     /\ \E left \in MortalOutcomes(Unit[def], loc[t].mortals, loc[t].before) :
             /\ Wounds' = [Wounds EXCEPT ![def] = left]
             /\ IF Destroyed(left)
                THEN Finished' = TRUE /\ Winner' = a
                ELSE UNCHANGED outcome
     /\ EnterSave(t, a, loc[t].wounds, loc[t].wep, def)
     /\ Mu' = NoThread
     /\ last' = [op |-> "resolve", by |-> a, res |-> "mortal", sent |-> 0, rolled |-> 0]
     /\ UNCHANGED <<IsAI, Ready, Loadout, Unit, Turn, sequence, timers, chooses,
                    trace>>

\* ------------------------------------------------------- save submissions
\* Rolls arrays a client sends in a save_rolls message.  PendingNeed is in
\* 2..6, so a die of 1 fails and a die of 6 passes every pending save; the
\* other values repeat one of the two.
ClientDie == {1, 6}
ClientRolls == UNION {[1..n -> ClientDie] : n \in 0..MaxClientRolls}

\* No save is pending (or the Room is over).
NoPendingSave_never == FALSE
NoPendingSave_noFinished == Phase # "save" \/ PendingSaves <= 0
NoPendingSave == Finished \/ Phase # "save" \/ PendingSaves <= 0

\* The defender is the player that does not hold the turn.
Defender == IF 1 = Turn THEN 2 ELSE 1
Attacker == IF 1 # Turn THEN 2 ELSE 1

\* The submitter is not the defender.
NotDefender_never(p) == FALSE
NotDefender(p) == Defender # p

\* The rolls evaluated: fresh d6 for every pending save when the client
\* sent none, else the client's array as sent.
EvaluatedRolls(rolls) ==
  IF Len(rolls) = 0 THEN [1..PendingSaves -> D6] ELSE {rolls}

EvaluatedCount(rolls) ==
  IF Len(rolls) = 0 THEN PendingSaves ELSE Len(rolls)

\* Damage per unsaved wound after the defender's damage reduction.
DamagePerWound(dmgPer, def) == max(1, dmgPer - def.DamageRed)

\* The defender's wounds an accepted submission of rolls can leave: unsaved
\* rolls times the damage per wound, less what Feel No Pain ignores.
SaveOutcomes(rolls) ==
  LET def == Unit[Defender]
      dmgPer == max(1, PendingDmg)
  IN UNION {LET totalDmg == Unsaved(evald, PendingNeed) * DamagePerWound(dmgPer, def)
            IN {max(0, Wounds[Defender] - max(0, totalDmg - ignored)) :
                  ignored \in Ignored(def, totalDmg)} :
            evald \in EvaluatedRolls(rolls)}

\* The save handler, shared by case "save_rolls" of wsReader (goroutine of
\* the submitting player) and wsReaderHandleSave (bot save task).
HandleSave(t, p, sent) ==
  /\ Mu = NoThread
  /\ IF NoPendingSave
     THEN /\ pc' = Done(t)
          /\ loc' = [loc EXCEPT ![t] = NoLoc]
          /\ last' = [op |-> "save", by |-> p, res |-> "no_pending", sent |-> 0, rolled |-> 0]
          /\ UNCHANGED <<Wounds, room, timers>>
     ELSE IF NotDefender(p)
     THEN /\ pc' = Done(t)
          /\ loc' = [loc EXCEPT ![t] = NoLoc]
          /\ last' = [op |-> "save", by |-> p, res |-> "not_defender", sent |-> 0, rolled |-> 0]
          /\ UNCHANGED <<Wounds, room, timers>>
     ELSE \E rolls \in sent : \E left \in SaveOutcomes(rolls) :
             LET fin == Finished \/ Destroyed(left)
                 next == IF ~fin /\ HasNext THEN AttackQueue[AttackIndex + 2] ELSE ""
             IN /\ Wounds' = [Wounds EXCEPT ![Defender] = left]
                /\ Finished' = fin
                /\ Winner' = IF Destroyed(left) THEN Turn ELSE Winner
                /\ PendingSaves' = 0
                /\ PendingNeed' = 0
                /\ PendingDmg' = 0
                /\ PendingBy' = NoPlayer
                /\ Phase' = ""
                /\ IF ~fin /\ HasNext
                   THEN /\ AttackIndex' = AttackIndex + 1
                        /\ CurrentWeapon' = next
                        /\ UNCHANGED <<Turn, AttackQueue>>
                   ELSE IF ~fin
                   THEN /\ Turn' = FlipTurn
                        /\ AttackQueue' = Nil
                        /\ AttackIndex' = 0
                        /\ CurrentWeapon' = ""
                   ELSE UNCHANGED <<Turn, sequence>>
                /\ IF next # ""
                   THEN /\ pc' = [pc EXCEPT ![t] = "rws_top"]
                        /\ loc' = [loc EXCEPT ![t] =
                                     [NoLoc EXCEPT !.attacker = Attacker,
                                                   !.weapon = next]]
                        /\ UNCHANGED timers
                   ELSE /\ Spawn(t)
                        /\ loc' = [loc EXCEPT ![t] = NoLoc]
                /\ last' = [op |-> "save", by |-> p, res |-> "accepted",
                            sent |-> Len(rolls), rolled |-> EvaluatedCount(rolls)]
  /\ UNCHANGED <<IsAI, Ready, Loadout, Unit, Mu, chooses, trace>>

\* wsReader, case "save_rolls".
SaveMsg(p) ==
  /\ pc[Reader(p)] = "idle"
  /\ UNCHANGED <<lobby, calc, api>>
  /\ HandleSave(Reader(p), p, ClientRolls)

\* The bot defender's task after its first pause: it reads the pending count.
SaveTaskRead ==
  /\ pc[SaveTask] = "sv_read"
  /\ UNCHANGED <<lobby, calc, api>>
  /\ Mu = NoThread
  /\ loc' = [loc EXCEPT ![SaveTask].count = PendingSaves]
  /\ pc' = [pc EXCEPT ![SaveTask] = "sv_submit"]
  /\ last' = [op |-> "bot_save", by |-> 2, res |-> "read", sent |-> 0, rolled |-> 0]
  /\ UNCHANGED <<players, room, Mu, timers, chooses, trace>>

\* ... and after its second pause: wsReaderHandleSave with count fresh d6.
wsReaderHandleSave ==
  /\ pc[SaveTask] = "sv_submit"
  /\ UNCHANGED <<lobby, calc, api>>
  /\ HandleSave(SaveTask, 2, [1..loc[SaveTask].count -> D6])

\* --------------------------------------------------------- scheduleAIAttack
\* A timer goroutine after its delay: it goes on only on the bot's turn,
\* outside the save phase, in a Room that is not over.
scheduleAIAttack ==
  /\ timers > 0
  /\ UNCHANGED <<lobby, calc, api>>
  /\ Mu = NoThread
  /\ timers' = timers - 1
  /\ IF Finished \/ Phase = "save" \/ Turn = NoPlayer \/ ~IsAI[Turn]
     THEN /\ last' = [op |-> "bot_attack", by |-> Turn, res |-> "dropped", sent |-> 0, rolled |-> 0]
          /\ UNCHANGED <<pc, loc>>
     ELSE LET t == CHOOSE x \in AtkTasks :
                     /\ pc[x] = "none"
                     /\ \A y \in AtkTasks : pc[y] = "none" => x[2] <= y[2]
          IN /\ pc' = [pc EXCEPT ![t] = "ai_start"]
             /\ loc' = [loc EXCEPT ![t].attacker = Turn]
             /\ last' = [op |-> "bot_attack", by |-> Turn, res |-> "go", sent |-> 0, rolled |-> 0]
  /\ UNCHANGED <<players, room, Mu, chooses, trace>>

\* ... and its call of roomStartAttackSequence, outside the lock.
AIAttack(t) ==
  /\ pc[t] = "ai_start"
  /\ UNCHANGED <<lobby, calc, api>>
  /\ roomStartAttackSequence(t, loc[t].attacker)

\* ------------------------------------------------------------------- spec
Next ==
  \/ \E p \in PID, m \in ChooseMsgs :
       Choose(p, m.unit, m.weapons, m.weapon)
  \/ \E p \in PID : ReadyMsg(p)
  \/ LoopWait
  \/ LoopInit
  \/ LoopRollOff
  \/ LoopFirst
  \/ \E p \in PID : AttackMsg(p)
  \/ \E t \in Threads : RwsTop(t)
  \/ \E t \in Threads : RwsWound(t)
  \/ \E t \in Threads : RwsResolve(t)
  \/ \E t \in Threads : RwsMortal(t)
  \/ \E p \in PID : SaveMsg(p)
  \/ SaveTaskRead
  \/ wsReaderHandleSave
  \/ scheduleAIAttack
  \/ \E t \in AtkTasks : AIAttack(t)

Spec == Init /\ [][Next]_vars

\* The goroutines the server starts for a bot go on once their sleep is
\* over: the save task, the scheduleAIAttack timers and the attack they
\* lead to.  Nothing is assumed about the messages of the clients.
FairSpec ==
  /\ Spec
  /\ WF_vars(SaveTaskRead)
  /\ WF_vars(wsReaderHandleSave)
  /\ WF_vars(scheduleAIAttack)
  /\ WF_vars(\E t \in AtkTasks : AIAttack(t))

\* ---- Matchmaking specification ----
\* The duel inside each Room is the specification above; here a Room is its
\* two player slots and whether its duel has finished.

\* No duel is tracked: the Room variables rest.
DuelIdle ==
  /\ IsAI = [p \in PID |-> FALSE]
  /\ Ready = [p \in PID |-> FALSE]
  /\ Loadout = [p \in PID |-> NoLoadout]
  /\ Unit = [p \in PID |-> NoUnit]
  /\ Wounds = [p \in PID |-> 0]
  /\ Turn = NoPlayer
  /\ Finished = FALSE
  /\ Winner = NoPlayer
  /\ Phase = ""
  /\ PendingSaves = 0
  /\ PendingNeed = 0
  /\ PendingDmg = 0
  /\ PendingBy = NoPlayer
  /\ AttackQueue = Nil
  /\ AttackIndex = 0
  /\ CurrentWeapon = ""
  /\ Mu = NoThread
  /\ pc = [t \in Threads |-> "none"]
  /\ loc = [t \in Threads |-> NoLoc]
  /\ timers = 0
  /\ chooses = 0
  /\ last = [op |-> "", by |-> NoPlayer, res |-> "", sent |-> 0, rolled |-> 0]
  /\ trace = <<>>

MatchInit == DuelIdle /\ LobbyInit /\ CalcIdle /\ ApiIdle

\* The rooms (by index) that hold p and whose duel has not finished.
ActiveRooms(p) ==
  {i \in DOMAIN rooms : ~rooms[i].Finished /\ p \in {rooms[i].P1, rooms[i].P2}}

\* createRoom(p1, p2): a new Room in rooms, both players indexed to it.
createRoom(p1, p2) ==
  LET id == Len(rooms) + 1
  IN /\ rooms' = Append(rooms, [P1 |-> p1, P2 |-> p2, Finished |-> FALSE])
     /\ playersIndex' = [q \in DOMAIN playersIndex |->
                           IF q \in {p1, p2} THEN id ELSE playersIndex[q]]

\* wsReader, case "queue": the participant is sent to matchQueue.
Queue(p, ai) ==
  /\ ~crashed /\ conn[p]
  /\ queueMsgs < MaxQueueMsgs
  /\ Len(matchQueue) < matchQueueCap
  /\ WantsAI' = [WantsAI EXCEPT ![p] = ai]
  /\ matchQueue' = Append(matchQueue, p)
  /\ queueMsgs' = queueMsgs + 1
  /\ UNCHANGED <<conn, mmPc, mmP1, rooms, playersIndex, crashed, duel, calc, api>>

\* wsReader, case "attack" with r == nil: r.ID dereferences the nil Room.
AttackNoRoom(p) ==
  /\ ~crashed /\ conn[p]
  /\ playersIndex[p] = NoRoom
  /\ crashed' = TRUE
  /\ UNCHANGED <<conn, WantsAI, matchQueue, mmPc, mmP1, rooms, playersIndex,
                 queueMsgs, duel, calc, api>>

\* wsReader, case "save_rolls" with r == nil: r.Mu.Lock() on the nil Room.
SaveRollsNoRoom(p) ==
  /\ ~crashed /\ conn[p]
  /\ playersIndex[p] = NoRoom
  /\ crashed' = TRUE
  /\ UNCHANGED <<conn, WantsAI, matchQueue, mmPc, mmP1, rooms, playersIndex,
                 queueMsgs, duel, calc, api>>

\* wsReader's read fails: the deferred function closes the connection and
\* clears the lobby entry.
Disconnect(p) ==
  /\ ~crashed /\ conn[p]
  /\ conn' = [conn EXCEPT ![p] = FALSE]
  /\ UNCHANGED <<WantsAI, matchQueue, mmPc, mmP1, rooms, playersIndex,
                 queueMsgs, crashed, duel, calc, api>>

\* matchmaker: p1 := <-matchQueue.
MMRecv ==
  /\ ~crashed /\ mmPc = "recv"
  /\ matchQueue # <<>>
  /\ mmP1' = Head(matchQueue)
  /\ matchQueue' = Tail(matchQueue)
  /\ mmPc' = "select"
  /\ UNCHANGED <<conn, WantsAI, rooms, playersIndex, queueMsgs, crashed, duel, calc, api>>

\* matchmaker: select, case p2 := <-matchQueue.
MMPair ==
  /\ ~crashed /\ mmPc = "select"
  /\ matchQueue # <<>>
  /\ createRoom(mmP1, Head(matchQueue))
  /\ matchQueue' = Tail(matchQueue)
  /\ mmPc' = "recv"
  /\ mmP1' = NoPlayer
  /\ UNCHANGED <<conn, WantsAI, queueMsgs, crashed, duel, calc, api>>

\* matchmaker: select, case <-time.After(1200ms).
MMTimeout ==
  /\ ~crashed /\ mmPc = "select"
  /\ IF WantsAI[mmP1]
     THEN /\ createRoom(mmP1, Bot)
          /\ mmPc' = "recv"
          /\ mmP1' = NoPlayer
     ELSE /\ mmPc' = "wait"
          /\ UNCHANGED <<mmP1, rooms, playersIndex>>
  /\ UNCHANGED <<conn, WantsAI, matchQueue, queueMsgs, crashed, duel, calc, api>>

\* matchmaker: after the timeout without bot play, p2 := <-matchQueue.
MMWait ==
  /\ ~crashed /\ mmPc = "wait"
  /\ matchQueue # <<>>
  /\ createRoom(mmP1, Head(matchQueue))
  /\ matchQueue' = Tail(matchQueue)
  /\ mmPc' = "recv"
  /\ mmP1' = NoPlayer
  /\ UNCHANGED <<conn, WantsAI, queueMsgs, crashed, duel, calc, api>>

\* The duel of Room i ends (Room.Finished = true).
FinishRoom(i) ==
  /\ ~crashed
  /\ ~rooms[i].Finished
  /\ rooms' = [rooms EXCEPT ![i].Finished = TRUE]
  /\ UNCHANGED <<conn, WantsAI, matchQueue, mmPc, mmP1, playersIndex,
                 queueMsgs, crashed, duel, calc, api>>

MatchNext ==
  \/ \E p \in Participants, ai \in BOOLEAN : Queue(p, ai)
  \/ \E p \in Participants : AttackNoRoom(p)
  \/ \E p \in Participants : SaveRollsNoRoom(p)
  \/ \E p \in Participants : Disconnect(p)
  \/ MMRecv
  \/ MMPair
  \/ MMTimeout
  \/ MMWait
  \/ \E i \in DOMAIN rooms : FinishRoom(i)

\* The matchmaker goroutine runs whenever it can take a step, and the timer
\* of its select fires.
MatchSpec ==
  /\ MatchInit
  /\ [][MatchNext]_vars
  /\ WF_vars(MMRecv)
  /\ WF_vars(MMPair \/ MMTimeout)
  /\ WF_vars(MMWait)

\* ----------------------------------------------------------------- claims
\* The step is a call of roomStartAttackSequence that did not start a sequence.
AttackRejected == last'.op = "attack" /\ last'.res \in {"not_turn", "busy"}

\* The step accepts the save submission for the pending saves.
SaveAccepted == last'.op = "save" /\ last'.res = "accepted"

\* The step completes the current weapon: no wounds, or its save accepted.
Completion ==
  \/ SaveAccepted /\ Phase = "save"
  \/ last'.op = "resolve" /\ last'.res = "no_wounds"

IsPrefix(s, q) == Len(s) <= Len(q) /\ s = SubSeq(q, 1, Len(s))

\* C1: an attack request made while Phase = "save" is rejected and leaves the
\* pending-save record, Turn, AttackQueue, AttackIndex and both players'
\* wounds unchanged.
C1_AttackInSavePhaseRejected ==
  [][(Phase = "save" /\ last'.op = "attack")
       => /\ AttackRejected
          /\ UNCHANGED <<pending, Turn, AttackQueue, AttackIndex, Wounds>>]_vars

C1_Witness ==
  /\ last.op = "attack" /\ last.res = "busy"
  /\ Phase = "save" /\ PendingSaves > 0
  /\ last.by = Turn

\* C2: an attack request from a player that is not the Room's Turn is rejected
\* and leaves every Room field and both players' wounds unchanged.
C2_AttackOutOfTurnRejected ==
  [][(last'.op = "attack" /\ last'.by # Turn)
       => /\ last'.res = "not_turn"
          /\ UNCHANGED <<room, Wounds>>]_vars

C2_Witness ==
  /\ last.op = "attack" /\ last.res = "not_turn"
  /\ Turn \in PID /\ last.by = Other(Turn)
  /\ ~Finished

\* C3: while an attack queue is mid-flight a new attack request is rejected
\* and neither replaces the queue nor resets the cursor, whichever goroutine
\* is between two critical sections of resolveWeaponStep.
C3_AttackMidFlightRejected ==
  [][(last'.op = "attack" /\ AttackQueue # Nil /\ AttackIndex < Len(AttackQueue))
       => /\ AttackRejected
          /\ UNCHANGED <<AttackQueue, AttackIndex>>]_vars

\* A request of the turn holder was turned down while the second weapon of
\* the queue was between its hit rolls and its wound rolls.
C3_Witness ==
  /\ last.op = "attack" /\ last.res = "busy" /\ last.by = Turn
  /\ Phase # "save"
  /\ AttackIndex = 1
  /\ \E t \in Threads : pc[t] = "rws_wound"

\* C4: once the Room is finished, every attack request and save submission,
\* of a human or of a bot's delayed task, is rejected and leaves Winner,
\* Turn, the cursor and both players' wounds as they are.
C4_FinishedIsTerminal ==
  [][(Finished /\ last'.op \in {"attack", "save", "bot_attack", "bot_save"})
       => /\ last'.res \in {"not_turn", "no_pending", "dropped", "read"}
          /\ UNCHANGED <<Finished, Winner, Turn, AttackIndex, Wounds>>]_vars

\* The bot's delayed save fired after the Room was finished.
C4_Witness ==
  /\ Finished
  /\ IsAI[2]
  /\ last.op = "save" /\ last.by = 2 /\ last.res = "no_pending"

\* C5: a damage step (accepted save submission, or Devastating Wounds mortal
\* damage) that leaves the defender with 0 wounds sets Finished and makes
\* the attacker, who holds the turn, the Winner in that same step.
C5_ZeroWoundsFinishes ==
  [][/\ (SaveAccepted /\ Wounds'[Defender] = 0)
          => (Finished' /\ Winner' = Attacker /\ Winner' = Turn /\ Turn' = Turn)
     /\ (last'.op = "resolve" /\ last'.res = "mortal"
           /\ Wounds'[Other(last'.by)] = 0)
          => (Finished' /\ Winner' = last'.by /\ Winner' = Turn /\ Turn' = Turn)]_vars

\* Mortal damage destroyed the defender.
C5_Witness ==
  /\ last.op = "resolve" /\ last.res = "mortal"
  /\ Wounds[Other(last.by)] = 0
  /\ Finished /\ Winner = last.by

\* C6: each player's wounds stay between 0 and the starting wounds of that
\* player's unit.
C6_WoundsInRange ==
  \A p \in PID : 0 <= Wounds[p] /\ Wounds[p] <= Unit[p].W

\* C7: the cursor changes only in a step that completes the current weapon
\* (no wounds, or the pending save accepted; in the save phase only the
\* latter), and then it goes up by exactly one, or back to 0 when the last
\* weapon of the queue is done.
C7_CursorMovesOnCompletion ==
  [][AttackIndex' # AttackIndex
       => /\ Completion
          /\ Phase = "save" => SaveAccepted
          /\ \/ AttackIndex' = AttackIndex + 1 /\ AttackQueue' = AttackQueue
             \/ /\ AttackIndex' = 0
                /\ AttackQueue' = Nil
                /\ AttackIndex + 1 = Len(AttackQueue)]_vars

\* The save for the first weapon was accepted and the cursor moved to the
\* second.
C7_Witness ==
  /\ last.op = "save" /\ last.res = "accepted"
  /\ AttackIndex = 1 /\ Len(AttackQueue) = 2

\* C8: Phase = "save" exactly when PendingSaves > 0; a volley with at least
\* one wound enters the save phase with the wound count, the save threshold
\* and the per-wound damage; the record is cleared, all fields together,
\* only by an accepted save submission.
C8_SavePhaseIffPending ==
  [][/\ Phase = "save" <=> PendingSaves > 0
     /\ Phase' = "save" <=> PendingSaves' > 0
     /\ \A t \in Threads :
          (pc[t] = "rws_res" /\ pc'[t] # "rws_res" /\ loc[t].wounds > 0)
            => (Phase' = "save" \/ pc'[t] = "rws_mortal")
     /\ \A t \in Threads :
          (/\ pc[t] \in {"rws_res", "rws_mortal"}
           /\ last'.op = "resolve" /\ last'.res \in {"save", "mortal"})
            => /\ Phase' = "save"
               /\ PendingSaves' = loc[t].wounds
               /\ PendingSaves' > 0
               /\ PendingNeed' = SaveNeed(loc[t].wep, Unit[Other(last'.by)])
               /\ PendingDmg' = max(1, loc[t].wep.D)
     /\ (PendingSaves > 0 /\ pending' # pending)
          => /\ SaveAccepted
             /\ pending' = <<0, 0, 0, NoPlayer>>
             /\ Phase' = ""]_vars

C8_Witness ==
  /\ last.op = "resolve" /\ last.res = "save"
  /\ Phase = "save" /\ PendingSaves = 2

\* C9: the weapon names of the queue are rolled for one at a time in queue
\* order, each once; Turn passes to the opponent exactly in the step that
\* completes the last weapon of the queue with the Room not finished.
C9_QueueInOrderThenFlip ==
  [][/\ AttackQueue' # Nil
          => /\ IsPrefix(trace', AttackQueue')
             /\ Len(trace') \in {AttackIndex', AttackIndex' + 1}
     /\ (Turn' # Turn /\ Turn # NoPlayer)
          => /\ Completion
             /\ trace = AttackQueue
             /\ AttackIndex + 1 = Len(AttackQueue)
             /\ ~Finished'
             /\ Turn' = Other(Turn)
     /\ (Completion /\ AttackIndex + 1 = Len(AttackQueue) /\ ~Finished')
          => Turn' = Other(Turn)
     /\ last'.op = "attack" /\ last'.res = "accepted"
          => AttackQueue' = BuildQueue(Loadout[last'.by])]_vars

\* A queue of two weapons was resolved and the turn passed to the defender.
C9_Witness ==
  /\ last.op = "save" /\ last.res = "accepted"
  /\ Len(trace) = 2
  /\ AttackQueue = Nil
  /\ ~Finished
  /\ Turn = last.by

\* C10: a save submission with fewer rolls than pending saves is padded with
\* fresh d6, so that PendingSaves rolls are evaluated.
C10_ShortRollsPadded ==
  [][(SaveAccepted /\ last'.sent < PendingSaves)
       => last'.rolled = PendingSaves]_vars

\* C11: a save submission made when no save is pending (Phase is not "save"
\* or PendingSaves <= 0), or by a player that is not the defender, is
\* rejected and leaves the Room and both players' wounds unchanged.
C11_SaveRejectedUnchanged ==
  [][(/\ last'.op = "save"
      /\ \/ Phase # "save"
         \/ PendingSaves <= 0
         \/ last'.by # Other(Turn))
       => /\ last'.res \in {"no_pending", "not_defender"}
          /\ UNCHANGED <<room, Wounds>>]_vars

\* The attacker sent save rolls for the saves its own volley left pending.
C11_Witness ==
  /\ last.op = "save" /\ last.res = "not_defender"
  /\ last.by = Turn
  /\ Phase = "save" /\ PendingSaves > 0
  /\ ~Finished

\* C12: on an accepted save submission the damage per unsaved wound is
\* PendingDmg minus the defender's damage reduction, floored at 0, and the
\* total before Feel No Pain is the unsaved count times that: the wounds the
\* defender loses are such a total, less what Feel No Pain ignores.
C12_DamageReductionFloorsAtZero ==
  [][SaveAccepted
       => LET def == Unit[Defender]
              perWound == IF PendingDmg - def.DamageRed > 0
                          THEN PendingDmg - def.DamageRed ELSE 0
          IN \E unsaved \in 0..last'.rolled :
               \E ignored \in Ignored(def, unsaved * perWound) :
                 LET dmg == unsaved * perWound - ignored
                 IN Wounds'[Defender] =
                      IF Wounds[Defender] - dmg > 0
                      THEN Wounds[Defender] - dmg ELSE 0]_vars

\* C13: the mortal damage of a volley is taken off the defender's wounds
\* (less what Feel No Pain ignores) in the step that ends the volley's
\* rolls, also when no wound is left for the save phase.
C13_MortalsAlwaysApplied ==
  [][\A t \in Threads :
       (/\ pc[t] \in {"rws_res", "rws_mortal"}
        /\ pc'[t] \notin {"rws_res", "rws_mortal"}
        /\ loc[t].mortals > 0)
         => LET def == Other(loc[t].attacker)
                had == IF pc[t] = "rws_mortal" THEN loc[t].before ELSE Wounds[def]
            IN \E ignored \in Ignored(Unit[def], loc[t].mortals) :
                 Wounds'[def] = max(0, had - (loc[t].mortals - ignored))]_vars

\* C14: Turn, Phase, the attack queue, the cursor, the pending-save record
\* and the players' wounds are written only under Room.Mu: no step changes
\* one of them while another goroutine holds the lock.
C14_WritesUnderLock ==
  [][<<Turn, Phase, AttackQueue, AttackIndex, pending, Wounds>>'
        # <<Turn, Phase, AttackQueue, AttackIndex, pending, Wounds>>
       => \/ Mu = NoThread
          \/ pc'[Mu] # pc[Mu]]_vars

\* The goroutines inside resolveWeaponStep that have rolled for their weapon
\* and have not yet entered the save phase, moved the cursor or flipped the
\* turn.
Rolling == {t \in Threads : pc[t] \in {"rws_wound", "rws_res", "rws_mortal"}}

C16_UnmatchedMessageHarmless == ~crashed

\* C17: a participant who queued with bot play enabled and was taken from the
\* queue by the matchmaker is eventually placed in a Room.
C17_BotPlayerEventuallyPlaced ==
  \A p \in Participants :
    (mmP1 = p /\ WantsAI[p]) ~> (playersIndex[p] # NoRoom)

\* C18: a queue request by a participant who is in an unfinished Room does
\* not put that participant in matchQueue again, and the participant stays
\* mapped to the Room it is in: no further Room is created for it.
C18_NoRequeueWhileInActiveRoom ==
  [][\A p \in Participants :
       ActiveRooms(p) # {}
         => /\ matchQueue' # Append(matchQueue, p)
            /\ playersIndex'[p] = playersIndex[p]]_vars

\* C19: a participant whose connection has closed is not in the matchmaking
\* queue, so the matchmaker cannot dequeue or pair it afterwards.
C19_DisconnectedLeavesQueue ==
  \A p \in Participants :
    ~conn[p] => \A i \in DOMAIN matchQueue : matchQueue[i] # p

\* C20: no attack is accepted before both players are ready and the roll-off
\* has assigned the first turn; the roll-off draws again while the two d6 are
\* equal and gives the turn to the player with the strictly higher roll; and
\* the first accepted attack comes from that player: an accepted attack is
\* made by the holder of the turn, and the turn the roll-off assigned moves
\* only when a sequence started by an accepted attack completes.
C20_RollOffDecidesFirstAttack ==
  [][/\ (last'.op = "attack" /\ last'.res = "accepted")
          => /\ Ready[1] /\ Ready[2]
             /\ pc[Loop] = EndPc(Loop)
             /\ Turn # NoPlayer
             /\ last'.by = Turn
     /\ (pc[Loop] = "first" /\ pc'[Loop] # "first")
          => IF loc[Loop].roll1 = loc[Loop].roll2
             THEN pc'[Loop] = "rolloff" /\ Turn' = NoPlayer
             ELSE /\ loc[Loop].roll1 > loc[Loop].roll2 => Turn' = 1
                  /\ loc[Loop].roll2 > loc[Loop].roll1 => Turn' = 2
     /\ (Turn # NoPlayer /\ Turn' # Turn)
          => Completion /\ AttackQueue # Nil /\ trace # <<>>]_vars

\* The player who won the roll-off as P2 has had the opening attack accepted:
\* nothing was resolved before it and both players are at full wounds.
C20_Witness ==
  /\ last.op = "attack" /\ last.res = "accepted" /\ last.by = 2
  /\ Turn = 2 /\ ~IsAI[2]
  /\ AttackIndex = 0
  /\ \A p \in PID : Wounds[p] = Unit[p].W

\* C21: whenever an unfinished Room is in the save phase and the defender is
\* a bot, the bot's delayed task eventually submits the save for the pending
\* count, without any message of the human, and the Room leaves the save
\* phase.
C21_BotSaveEventuallySubmitted ==
  (Phase = "save" /\ ~Finished /\ IsAI[Defender])
    ~> (/\ last.op = "save" /\ last.res = "accepted" /\ IsAI[last.by]
        /\ last.sent = last.rolled
        /\ PendingSaves = 0 /\ Phase # "save")

\* The bot's task has submitted the save and the Room has left the save phase.
C21_Witness ==
  /\ IsAI[2] /\ pc[SaveTask] = EndPc(SaveTask)
  /\ last.op = "save" /\ last.res = "accepted" /\ last.by = 2
  /\ last.sent > 0 /\ last.sent = last.rolled
  /\ Phase # "save" /\ ~Finished

\* C22: once the roll-off has started the duel, no step raises a player's
\* wounds, whatever the clients send.
C22_WoundsNeverRise ==
  [][Turn # NoPlayer => \A p \in PID : Wounds'[p] <= Wounds[p]]_vars

\* ---- Pure functions: the wound target ----

\* woundTarget of internal/game/types.go.
woundTarget(S, T) ==
  CASE S >= 2 * T -> 2
    [] S > T -> 3
    [] S = T -> 4
    [] S * 2 <= T -> 6
    [] OTHER -> 5

\* woundTarget of internal/game/shooting.go.
shooting_woundTarget(S, T) ==
  CASE S >= 2 * T -> 2
    [] S > T -> 3
    [] S = T -> 4
    [] S * 2 <= T -> 6
    [] OTHER -> 5

WoundInit ==
  /\ DuelIdle /\ LobbyInit /\ ApiIdle
  /\ fn = "woundTarget"
  /\ args \in [S : 1..MaxStat, T : 1..MaxStat]
  /\ ret = <<>>

\* The three implementations are called with the same strength and toughness.
WoundCall ==
  /\ fn = "woundTarget" /\ ret = <<>>
  /\ ret' = <<woundTarget(args.S, args.T), shooting_woundTarget(args.S, args.T),
              woundNeeded(args.S, args.T)>>
  /\ UNCHANGED <<fn, args, duel, lobby, api>>

WoundNext == WoundCall

WoundSpec == WoundInit /\ [][WoundNext]_vars

\* C23: for S >= 1 and T >= 1 the wound target is 2 when S >= 2T, 3 when
\* T < S < 2T, 4 when S = T, 5 when S < T < 2S and 6 when 2S <= T (so it lies
\* in 2..6), and the three implementations agree.
C23_WoundTargetTable ==
  (fn = "woundTarget" /\ ret # <<>>)
    => LET S == args.S
           T == args.T
           r == ret[1]
       IN /\ r \in 2..6
          /\ S >= 2 * T => r = 2
          /\ (T < S /\ S < 2 * T) => r = 3
          /\ S = T => r = 4
          /\ (S < T /\ T < 2 * S) => r = 5
          /\ 2 * S <= T => r = 6
          /\ ret[2] = r /\ ret[3] = r
          /\ (S = 8 /\ T = 4) => r = 2
          /\ (S = 5 /\ T = 4) => r = 3
          /\ (S = 4 /\ T = 6) => r = 5

\* Strength 3 against toughness 8: all three give 6.
C23_Witness ==
  fn = "woundTarget" /\ args = [S |-> 3, T |-> 8] /\ ret = <<6, 6, 6>>

\* ---- Pure functions: the wound threshold of the Room's volley ----

\* deriveWeaponRules: an Anti-<tag> n+ with n in 2..6 sets AntiTag and
\* AntiValue; without it both keep their zero value.
AntiRules == {[tag |-> "", n |-> 0]} \cup [tag : {"vehicle"}, n : 2..6]

AntiInit ==
  /\ DuelIdle /\ LobbyInit /\ ApiIdle
  /\ fn = "WoundTarget"
  /\ \E S \in 1..MaxStat, a \in AntiRules, def \in UnitSet, T \in 1..MaxStat :
       args = [wep |-> [Bolter EXCEPT !.S = S, !.AntiTag = a.tag,
                                      !.AntiValue = a.n],
               def |-> [def EXCEPT !.T = T]]
  /\ ret = <<>>

\* resolveWeaponStep computes the wound threshold of the volley.
AntiCall ==
  /\ fn = "WoundTarget" /\ ret = <<>>
  /\ ret' = <<WoundTarget(args.wep, args.def)>>
  /\ UNCHANGED <<fn, args, duel, lobby, api>>

AntiNext == AntiCall

AntiSpec == AntiInit /\ [][AntiNext]_vars

\* C24: the Room's wound threshold is the natural strength-vs-toughness
\* threshold, except when the weapon has Anti-<tag> n+ and the defender's
\* keywords contain <tag>: then it is min(natural, n).
C24_AntiOnlyAgainstKeyword ==
  (fn = "WoundTarget" /\ ret # <<>>)
    => LET natural == woundNeeded(args.wep.S, args.def.T)
           applies == /\ args.wep.AntiValue >= 2
                      /\ args.wep.AntiTag \in args.def.Keywords
       IN ret[1] = IF applies THEN min(natural, args.wep.AntiValue)
                   ELSE natural

\* ---- Pure functions: the save threshold ----

\* bestSaveThreshold of internal/game/types.go; 7 means no save.
bestSaveThreshold_noInv(sv, inv, ap) ==
  LET eff0 == sv - ap
      eff1 == IF eff0 < 2 THEN 2 ELSE eff0
  IN IF eff1 > 6 THEN 7 ELSE eff1
bestSaveThreshold(sv, inv, ap) ==
  LET eff0 == sv - ap
      eff1 == IF eff0 < 2 THEN 2 ELSE eff0
      eff2 == IF eff1 > 6 THEN 7 ELSE eff1
  IN IF inv > 0 /\ inv < eff2 THEN inv ELSE eff2

\* The same computation as ResolveShooting has it inline (effSave, saveTN).
saveTN(Sv, InvSv, AP) ==
  LET effSave0 == Sv - AP
      effSave1 == IF effSave0 < 2 THEN 2 ELSE effSave0
      effSave == IF effSave1 > 6 THEN 7 ELSE effSave1
  IN IF InvSv > 0 /\ InvSv < effSave THEN InvSv ELSE effSave

\* Armour saves 2+..6+ and 7 (none), invulnerable saves 0 (none) and 1..6,
\* AP from -MaxAP up to +1.
SaveInit ==
  /\ DuelIdle /\ LobbyInit /\ ApiIdle
  /\ fn = "bestSaveThreshold"
  /\ args \in [sv : 2..7, inv : 0..6, ap : (0 - MaxAP)..1]
  /\ ret = <<>>

SaveCall ==
  /\ fn = "bestSaveThreshold" /\ ret = <<>>
  /\ ret' = <<bestSaveThreshold(args.sv, args.inv, args.ap),
              saveTN(args.sv, args.inv, args.ap)>>
  /\ UNCHANGED <<fn, args, duel, lobby, api>>

SaveNext == SaveCall

SaveSpec == SaveInit /\ [][SaveNext]_vars

\* C25: bestSaveThreshold(sv, inv, ap) is sv - ap clamped to 2..7 with every
\* value above 6 becoming 7, replaced by inv whenever inv > 0 and inv is
\* lower than that armour value; Sv 3 with AP -1 gives 4, and an armour value
\* of 5 with InvSv 4 gives 4.  ResolveShooting's inline threshold is the same.
C25_BestSaveThreshold ==
  (fn = "bestSaveThreshold" /\ ret # <<>>)
    => LET raw == args.sv - args.ap
           armour == IF raw > 6 THEN 7 ELSE max(2, raw)
           r == ret[1]
       IN /\ armour \in 2..7
          /\ (args.inv > 0 /\ args.inv < armour) => r = args.inv
          /\ ~(args.inv > 0 /\ args.inv < armour) => r = armour
          /\ (args.sv = 3 /\ args.ap = 0 - 1 /\ args.inv = 0) => r = 4
          /\ (armour = 5 /\ args.inv = 4) => r = 4
          /\ ret[2] = r

\* Armour 4+ against AP -1 is 5+, and the invulnerable 4+ is used.
C25_Witness ==
  /\ fn = "bestSaveThreshold"
  /\ args = [sv |-> 4, inv |-> 4, ap |-> 0 - 1]
  /\ ret = <<4, 4>>

\* C37: in every reachable state of a Room, Finished implies that the Room
\* is not in save phase and has no pending saves, also when the defender is
\* destroyed by the mortal damage of a volley that produced ordinary wounds
\* as well.
C37_FinishedHasNoPendingSaves ==
  Finished => (Phase # "save" /\ PendingSaves = 0)

\* C38: whatever rolls array the defender submits, an accepted save
\* submission counts at most PendingSaves unsaved wounds, so it removes at
\* most PendingSaves times the damage per wound from the defender's wounds.
C38_SaveDamageBoundedByPending ==
  [][(last'.op = "save" /\ last'.res = "accepted")
       => \A p \in PID :
            Wounds[p] - Wounds'[p]
              <= PendingSaves
                   * DamagePerWound(max(1, PendingDmg), Unit[Defender])]_vars

\* C39: every Room the matchmaker creates has two distinct participants in
\* its two player slots, whatever queue requests were sent, also when a
\* participant sends the queue request more than once before being matched.
C39_RoomPlayersDistinct ==
  \A i \in DOMAIN rooms : rooms[i].P1 # rooms[i].P2

\* C40: a participant who queued with "Play vs AI" (WantsAI) is only ever
\* placed in a Room whose opponent is a bot, also when human participants
\* are waiting in the matchmaking queue at the same time.
C40_WantsAIGetsBot ==
  [][Len(rooms') > Len(rooms)
       => LET r == rooms'[Len(rooms')]
          IN \A q \in Participants :
               (q \in {r.P1, r.P2} /\ WantsAI[q]) => Bot \in {r.P1, r.P2}]_vars

\* ---- Pure functions: the Room's save threshold ----

\* The AP modifiers parseAP yields (the magnitude of the catalog's "-X").
APMagnitudes == 0..6

\* Armour saves as parseSave clamps them, invulnerable saves 0 (none) and
\* 2..6.
NeedInit ==
  /\ DuelIdle /\ LobbyInit /\ ApiIdle
  /\ fn = "saveNeed"
  /\ args \in [Sv : 2..6, InvSv : {0} \cup (2..6), AP : APMagnitudes]
  /\ ret = <<>>

\* The threshold resolveWeaponStep stores in PendingNeed, next to
\* bestSaveThreshold for the same profile.
NeedCall ==
  /\ fn = "saveNeed" /\ ret = <<>>
  /\ ret' = <<SaveNeed([AP |-> args.AP], [Sv |-> args.Sv, InvSv |-> args.InvSv]),
              bestSaveThreshold(args.Sv, args.InvSv, 0 - args.AP)>>
  /\ UNCHANGED <<fn, args, duel, lobby, api>>

NeedNext == NeedCall

NeedSpec == NeedInit /\ [][NeedNext]_vars

\* C33: the save threshold the Room records in its pending-save record
\* equals bestSaveThreshold(Sv, InvSv, -AP) for every armour save 2..6,
\* invulnerable save 0 or 2..6 and AP magnitude 0..6; it is 7 (no save
\* possible) when Sv + AP exceeds 6 and there is no invulnerable save.
C33_PendingNeedIsBestSaveThreshold ==
  (fn = "saveNeed" /\ ret # <<>>)
    => /\ ret[1] = ret[2]
       /\ (args.Sv + args.AP > 6 /\ args.InvSv = 0) => ret[1] = 7

\* ---- Pure functions: the dice expression evaluator ----

\* A dice expression as rollExpr takes it apart: the empty string, a plain
\* integer (strconv.Atoi succeeds), a string diceRe does not match, or the
\* groups of a match: count (hasCount = FALSE when group 1 is empty), sides,
\* the operator ("" when group 3 is empty) and k.
EmptyExpr == [kind |-> "empty"]
BadExpr == [kind |-> "bad"]
IntExpr(n) == [kind |-> "int", n |-> n]
DiceExpr(hasCount, count, sides, op, k) ==
  [kind |-> "dice", hasCount |-> hasCount, count |-> count, sides |-> sides,
   op |-> op, k |-> k]

DiceExprs ==
  {DiceExpr(TRUE, n, m, "", 0) : n \in 0..MaxDiceCount, m \in 0..MaxSides}
  \cup {DiceExpr(FALSE, 0, m, "", 0) : m \in 0..MaxSides}
  \cup {DiceExpr(TRUE, n, m, x[1], x[2]) :
          n \in 0..MaxDiceCount, m \in 0..MaxSides,
          x \in {"+", "-", "x"} \X (0..MaxMod)}
  \cup {DiceExpr(FALSE, 0, m, x[1], x[2]) :
          m \in 0..MaxSides, x \in {"+", "-", "x"} \X (0..MaxMod)}

Exprs ==
  {EmptyExpr, BadExpr} \cup {IntExpr(n) : n \in (0 - MaxMod)..MaxMod}
  \cup DiceExprs

\* The number of dice rollExpr draws for the expression.
DiceCount(expr) ==
  IF expr.kind # "dice" THEN 0 ELSE IF expr.hasCount THEN expr.count ELSE 1

\* The draws 1 + r.Intn(sides) the expression can get.
Draws(expr) ==
  IF expr.kind # "dice" THEN {<<>>}
  ELSE [1..DiceCount(expr) -> 1..expr.sides]

\* rollExpr, given the values of its draws.
rollExpr_noFloor(draws, expr) ==
  CASE expr.kind = "empty" -> 0
    [] expr.kind = "int" -> expr.n
    [] expr.kind = "bad" -> 0
    [] OTHER ->
         LET total == SumTo(draws, DiceCount(expr))
         IN CASE expr.op = "+" -> total + expr.k
              [] expr.op = "-" -> total - expr.k
              [] expr.op = "x" -> total * expr.k
              [] OTHER -> total
rollExpr(draws, expr) ==
  CASE expr.kind = "empty" -> 0
    [] expr.kind = "int" -> expr.n
    [] expr.kind = "bad" -> 0
    [] OTHER ->
         LET total == SumTo(draws, DiceCount(expr))
             modified == CASE expr.op = "+" -> total + expr.k
                           [] expr.op = "-" -> total - expr.k
                           [] expr.op = "x" -> total * expr.k
                           [] OTHER -> total
         IN IF modified < 0 THEN 0 ELSE modified

\* r.Intn(sides) panics for sides <= 0: a matching expression with zero
\* sides and at least one die to draw.
Panics(expr) ==
  expr.kind = "dice" /\ DiceCount(expr) >= 1 /\ expr.sides = 0

\* What the caller is left with when rollExpr panics instead of returning.
Panic == <<"panic">>

DiceInit ==
  /\ DuelIdle /\ LobbyInit /\ ApiIdle
  /\ fn = "rollExpr"
  /\ args \in Exprs
  /\ ret = <<>>

DiceCall ==
  /\ fn = "rollExpr" /\ ret = <<>>
  /\ IF Panics(args)
     THEN ret' = Panic
     ELSE \E draws \in Draws(args) : ret' = <<rollExpr(draws, args), draws>>
  /\ UNCHANGED <<fn, args, duel, lobby, api>>

DiceNext == DiceCall

DiceSpec == DiceInit /\ [][DiceNext]_vars

\* C30: for an expression NdM+K or NdM-K with N >= 1 and M >= 1, whatever
\* the draws (each in 1..M), rollExpr returns a total between max(0, N + K)
\* and max(0, N*M + K), K being negative for -K.
C30_RollExprRange ==
  (/\ fn = "rollExpr" /\ ret # <<>>
   /\ args.kind = "dice" /\ args.op \in {"+", "-"} /\ DiceCount(args) >= 1
   /\ args.sides >= 1)
    => LET N == DiceCount(args)
           M == args.sides
           K == IF args.op = "+" THEN args.k ELSE 0 - args.k
       IN /\ \A i \in 1..N : ret[2][i] \in 1..M
          /\ ret[1] >= max(0, N + K)
          /\ ret[1] <= max(0, N * M + K)

\* 2d6-3 with both dice showing 1: the total -1 is floored at 0.
C30_Witness ==
  /\ fn = "rollExpr"
  /\ args = DiceExpr(TRUE, 2, 6, "-", 3)
  /\ ret = <<0, <<1, 1>>>>

\* rollExpr has returned a total (and the die values it drew).
DiceReturned == fn = "rollExpr" /\ ret # <<>> /\ ret # Panic

\* C31: the dice evaluator returns a non-negative total for every input
\* string, plain integers included.
C31_RollExprNonNegative == DiceReturned => ret[1] >= 0

\* C32: no input string makes the dice evaluator fail: for every string,
\* zero-sided dice included, a call of rollExpr ends by returning a value.
C32_RollExprNeverFails == (fn = "rollExpr" /\ ret # <<>>) => ret # Panic

\* ---- Pure functions: the hit and wound loops of the Room's volley ----

\* The weapons the volley is evaluated for: the bolter with and without
\* Lethal Hits and Devastating Wounds.
VolleyWeapons ==
  {[Bolter EXCEPT !.LethalHits = l, !.DevastatingWounds = d] :
     l \in BOOLEAN, d \in BOOLEAN}

VolleyInit ==
  /\ DuelIdle /\ LobbyInit /\ ApiIdle
  /\ fn = "resolveWeaponStep"
  /\ args \in [wep : VolleyWeapons, def : UnitSet]
  /\ ret = <<>>

\* resolveWeaponStep from the hit loop to the end of the wound loop, with the
\* hit rolls and the wound rolls it draws (one wound roll for every hit).
VolleyCall ==
  /\ fn = "resolveWeaponStep" /\ ret = <<>>
  /\ \E attacks \in AttackCounts(args.wep) :
       \E hitRolls \in [1..attacks -> D6] :
         LET hits == HitCount(args.wep, hitRolls)
             target == WoundTarget(args.wep, args.def)
         IN \E woundRolls \in [1..hits -> D6],
               rolls2 \in [1..hits -> Rerolls(args.wep)] :
              ret' = [hitRolls |-> hitRolls, hits |-> hits,
                      woundRolls |-> woundRolls,
                      autoWounds |-> CountKind(args.wep, target, woundRolls,
                                               rolls2, {"auto"}),
                      wounds |-> CountKind(args.wep, target, woundRolls,
                                           rolls2, {"wound", "auto"}),
                      mortals |-> max(1, args.wep.D)
                                    * CountKind(args.wep, target, woundRolls,
                                                rolls2, {"mortal"})]
  /\ UNCHANGED <<fn, args, duel, lobby, api>>

VolleyNext == VolleyCall

VolleySpec == VolleyInit /\ [][VolleyNext]_vars

\* The successful hit rolls of the volley that show a 6.
CriticalHits ==
  Cardinality({i \in DOMAIN ret.hitRolls :
                 /\ ret.hitRolls[i] = 6
                 /\ ret.hitRolls[i] >= clamp(2, 6, args.wep.BS)})

\* C29: with Lethal Hits the auto-wounds of a volley are as many as its
\* successful hit rolls showing a 6, and those hits get no wound roll: the
\* wound rolls are as many as the other hits.
C29_LethalHitsFromHitRolls ==
  (fn = "resolveWeaponStep" /\ ret # <<>> /\ args.wep.LethalHits)
    => /\ ret.autoWounds = CriticalHits
       /\ Len(ret.woundRolls) = ret.hits - CriticalHits

\* ---- Pure functions: ResolveShooting of internal/game ----

\* A WeaponSnapshot with its Abilities as ResolveShooting normalises them
\* (torrent, sustained hits n, lethal hits, twin-linked, devastating wounds,
\* anti-<kw> tn+), and Attacks and Damage as dice expressions.
PlainWeapon ==
  [Attacks |-> IntExpr(MaxAttacks), Skill |-> 3, Strength |-> 4, AP |-> 0,
   Damage |-> IntExpr(1), torrent |-> FALSE, sustainedHits |-> 0,
   lethalHits |-> FALSE, twinLinked |-> FALSE, devastating |-> FALSE,
   antiKW |-> "", antiTN |-> 0]

WeaponSnapshots ==
  {PlainWeapon,
   [PlainWeapon EXCEPT !.Skill = 1, !.AP = 0 - 1, !.Damage = IntExpr(2)],
   [PlainWeapon EXCEPT !.torrent = TRUE],
   [PlainWeapon EXCEPT !.Skill = 4, !.Strength = 2, !.sustainedHits = 1],
   [PlainWeapon EXCEPT !.lethalHits = TRUE,
                       !.antiKW = "vehicle", !.antiTN = 2],
   [PlainWeapon EXCEPT !.twinLinked = TRUE],
   [PlainWeapon EXCEPT !.devastating = TRUE,
                       !.Damage = DiceExpr(FALSE, 0, 3, "", 0)],
   [PlainWeapon EXCEPT !.Skill = 0, !.Strength = 8,
                       !.Damage = IntExpr(0 - 1)],
   [PlainWeapon EXCEPT !.Attacks = DiceExpr(FALSE, 0, 2, "", 0),
                       !.Skill = 1, !.devastating = TRUE,
                       !.Damage = DiceExpr(FALSE, 0, 3, "", 0)]}

\* A UnitSnapshot of the defender; fnpTN is the Feel No Pain threshold
\* parsed from its Abilities (0: none).
UnitSnapshots ==
  {[T |-> 4, W |-> 2, Sv |-> 4, InvSv |-> 0, Keywords |-> {"infantry"},
    fnpTN |-> 0],
   [T |-> 4, W |-> 1, Sv |-> 3, InvSv |-> 1, Keywords |-> {"infantry"},
    fnpTN |-> 0],
   [T |-> 8, W |-> 3, Sv |-> 7, InvSv |-> 0, Keywords |-> {"vehicle"},
    fnpTN |-> 5]}

\* for i := 0; i < n; i++ runs max(0, n) times.
Times(n) == IF n < 0 THEN 0 ELSE n

\* Number of TRUE entries of a sequence of outcomes.
Count(log) ==
  SumTo([i \in DOMAIN log |-> IF log[i] THEN 1 ELSE 0], Len(log))

\* Hit: Torrent hits automatically (the roll is set to 6); else the roll must
\* reach the skill and not be 1.
HitOK_naturalOne(w, roll) == w.torrent \/ roll >= w.Skill
HitOK(w, roll) == w.torrent \/ (roll >= w.Skill /\ roll # 1)

HitRollsOf(w, attacks) ==
  IF w.torrent THEN {[i \in 1..Times(attacks) |-> 6]}
  ELSE [1..Times(attacks) -> D6]

\* hits, with the bonus hits of Sustained Hits on a 6.
Hits(w, rolls) ==
  SumTo([i \in DOMAIN rolls |->
           IF HitOK(w, rolls[i])
           THEN 1 + (IF ~w.torrent /\ w.sustainedHits > 0 /\ rolls[i] = 6
                     THEN w.sustainedHits ELSE 0)
           ELSE 0], Len(rolls))

\* critAutoWounds: successful hit rolls of 6 under Lethal Hits.
CritAutoWounds(w, rolls) ==
  SumTo([i \in DOMAIN rolls |->
           IF ~w.torrent /\ HitOK(w, rolls[i]) /\ w.lethalHits /\ rolls[i] = 6
           THEN 1 ELSE 0], Len(rolls))

\* woundTN: the natural target, overridden by a lower Anti target when the
\* defender has the keyword.
woundTN(w, def) ==
  LET natural == woundTarget(w.Strength, def.T)
      antiTN == IF /\ w.antiKW # "" /\ w.antiTN >= 2 /\ w.antiTN <= 6
                   /\ w.antiKW \in def.Keywords
                THEN w.antiTN ELSE 0
  IN IF antiTN > 0 /\ antiTN < natural THEN antiTN ELSE natural

WoundPass(tn, roll) == roll >= tn /\ roll # 1

\* Twin-linked re-rolls a failed wound roll once.
Rerolled(w, tn, roll) == ~WoundPass(tn, roll) /\ w.twinLinked

SavePass(tn, roll) == roll >= tn /\ roll # 1

\* Devastating Wounds: the maximum of a damage expression that starts with
\* D6 or D3 (0: not inferred).
MaxDamage(expr) ==
  IF expr.kind = "dice" /\ ~expr.hasCount /\ expr.sides = 6 THEN 6
  ELSE IF expr.kind = "dice" /\ ~expr.hasCount /\ expr.sides = 3 THEN 3
  ELSE 0

\* The damage of the i-th unsaved wound: the maximum when Devastating Wounds
\* is active and the i-th recorded wound roll is a 6, else rollExpr.
DamageChoices(w, i, woundRolls) ==
  IF /\ w.devastating /\ i <= Len(woundRolls) /\ woundRolls[i] = 6
     /\ MaxDamage(w.Damage) # 0
  THEN {MaxDamage(w.Damage)}
  ELSE {rollExpr(d, w.Damage) : d \in Draws(w.Damage)}

\* Feel No Pain: one roll per point of damage; with a threshold in 2..6 any
\* number of the points can be ignored.
FNPIgnored(def, totalDmg) ==
  IF def.fnpTN > 0 /\ totalDmg > 0 THEN 0..totalDmg ELSE {0}

ShootInit ==
  /\ DuelIdle /\ LobbyInit /\ ApiIdle
  /\ fn = "ResolveShooting"
  /\ args \in [w : WeaponSnapshots, def : UnitSnapshots]
  /\ ret = <<>>

\* ResolveShooting(att, def, w): the ShootingResult, with the rolls of its
\* Subphases and the outcome logged for each die.
ShootCall ==
  /\ fn = "ResolveShooting" /\ ret = <<>>
  /\ LET w == args.w
         def == args.def
     IN \E ad \in Draws(w.Attacks) :
        LET attacks == rollExpr(ad, w.Attacks) IN
        \E hitRolls \in HitRollsOf(w, attacks) :
        LET hits == Hits(w, hitRolls)
            critAutoWounds == CritAutoWounds(w, hitRolls)
            attempts == hits - critAutoWounds
            tn == woundTN(w, def)
        IN
        \E rolls \in [1..Times(attempts) -> D6] :
        \E woundRolls \in
             (IF w.twinLinked
              THEN {f \in [1..Times(attempts) -> D6] :
                      \A i \in 1..Times(attempts) :
                         ~Rerolled(w, tn, rolls[i]) => f[i] = rolls[i]}
              ELSE {rolls}) :
        LET wounds == critAutoWounds
                      + Count([i \in DOMAIN woundRolls |->
                                 WoundPass(tn, woundRolls[i])])
            stn == saveTN(def.Sv, def.InvSv, w.AP)
        IN
        \E saveRolls \in [1..Times(wounds) -> D6] :
        LET saved == Count([i \in DOMAIN saveRolls |->
                             SavePass(stn, saveRolls[i])])
            unsaved == Count([i \in DOMAIN saveRolls |->
                               ~SavePass(stn, saveRolls[i])])
            DamageValues ==
              UNION {DamageChoices(w, i, woundRolls) : i \in 1..unsaved}
        IN
        \E damageRolls \in
             {f \in [1..unsaved -> DamageValues] :
                \A i \in 1..unsaved :
                   f[i] \in DamageChoices(w, i, woundRolls)} :
        LET rolled == SumTo(damageRolls, unsaved) IN
        \E ignored \in FNPIgnored(def, rolled) :
        LET afterFNP == IF def.fnpTN > 0 /\ rolled > 0
                        THEN (IF rolled - ignored < 0 THEN 0
                              ELSE rolled - ignored)
                        ELSE rolled
            remain == IF def.W - afterFNP < 0 THEN 0 ELSE def.W - afterFNP
        IN ret' = [Attacks |-> attacks, Hits |-> hits, Wounds |-> wounds,
                   Saved |-> saved, Unsaved |-> unsaved,
                   DamageTotal |-> afterFNP, DefenderWounds |-> remain,
                   HitRolls |-> hitRolls,
                   HitLog |-> [i \in DOMAIN hitRolls |->
                                 HitOK(w, hitRolls[i])],
                   HitTarget |-> w.Skill,
                   WoundRolls |-> woundRolls,
                   WoundLog |-> [i \in DOMAIN woundRolls |->
                                   WoundPass(tn, woundRolls[i])],
                   WoundTarget |-> tn,
                   SaveRolls |-> saveRolls,
                   SaveLog |-> [i \in DOMAIN saveRolls |->
                                  SavePass(stn, saveRolls[i])],
                   SaveTarget |-> stn,
                   DamageRolls |-> damageRolls]
  /\ UNCHANGED <<fn, args, duel, lobby, api>>

ShootNext == ShootCall

ShootSpec == ShootInit /\ [][ShootNext]_vars

\* The call has returned its ShootingResult.
ShootReturned == fn = "ResolveShooting" /\ ret # <<>>

\* C26: in ResolveShooting a die showing 1 is never logged or counted as a
\* successful hit, wound or save, whatever the hit skill, wound target and
\* save threshold are (thresholds of 1 or less included).
C26_NaturalOneNeverSucceeds ==
  ShootReturned =>
    /\ \A i \in DOMAIN ret.HitRolls : ret.HitRolls[i] = 1 => ~ret.HitLog[i]
    /\ \A i \in DOMAIN ret.WoundRolls :
         ret.WoundRolls[i] = 1 => ~ret.WoundLog[i]
    /\ \A i \in DOMAIN ret.SaveRolls :
         ret.SaveRolls[i] = 1 => ~ret.SaveLog[i]
    /\ ret.Saved <= Count([i \in DOMAIN ret.SaveRolls |-> ret.SaveRolls[i] # 1])
    /\ ret.Unsaved >= Count([i \in DOMAIN ret.SaveRolls |-> ret.SaveRolls[i] = 1])

\* A weapon of skill 1 misses on a 1 and hits with its other attack, and the
\* defender's 1+ invulnerable save fails on a 1.
C26_Witness ==
  /\ ShootReturned
  /\ ret.HitTarget <= 1 /\ ret.SaveTarget <= 1
  /\ \E i \in DOMAIN ret.HitRolls : ret.HitRolls[i] = 1 /\ ~ret.HitLog[i]
  /\ ret.Hits = 1
  /\ \E i \in DOMAIN ret.SaveRolls : ret.SaveRolls[i] = 1 /\ ~ret.SaveLog[i]
  /\ ret.Unsaved = 1 /\ ret.Saved = 0

\* C27: for every weapon and defender profile the result of ResolveShooting
\* has Saved + Unsaved = Wounds, Unsaved <= Wounds, DamageTotal >= 0 and
\* 0 <= DefenderWounds <= the defender's starting wounds W.
C27_ShootingResultInvariants ==
  ShootReturned =>
    /\ ret.Saved + ret.Unsaved = ret.Wounds
    /\ ret.Unsaved <= ret.Wounds
    /\ ret.DamageTotal >= 0
    /\ 0 <= ret.DefenderWounds /\ ret.DefenderWounds <= args.def.W

\* Wound rolls of the result that succeeded on a natural 6.
CriticalWounds ==
  SumTo([i \in DOMAIN ret.WoundRolls |->
           IF ret.WoundLog[i] /\ ret.WoundRolls[i] = 6 THEN 1 ELSE 0],
        Len(ret.WoundRolls))

\* C28: in ResolveShooting with Devastating Wounds a wound whose successful
\* wound roll is a natural 6 is never rolled a save and always contributes
\* damage: save rolls are made for the remaining wounds only, and every
\* critical wound has its damage roll.
C28_DevastatingWoundsBypassSave ==
  (ShootReturned /\ args.w.devastating) =>
    /\ Len(ret.SaveRolls) = ret.Wounds - CriticalWounds
    /\ Len(ret.DamageRolls) >= CriticalWounds

\* ---- The PvP matches of the API server (src/cmd/api/main.go) ----
\* Every method of PvPMatchmaker holds p.mu for its own duration only; the
\* handlers read and write the fields of a match outside the lock.  One
\* action is one method call or one unlocked statement group of a handler.

PvPOnly == DuelIdle /\ LobbyInit /\ CalcIdle /\ AutoIdle

PvPStart == PvPInit /\ PvPOnly

\* findMatchForPlayer: the matches of the player that are not finished.
findMatchForPlayer(player) ==
  {m \in DOMAIN pvpMatches :
     /\ pvpMatches[m].Player1 = player \/ pvpMatches[m].Player2 = player
     /\ pvpMatches[m].Status # "finished"}

\* findWaitingPlayer: the queue entries other than the requester.
findWaitingPlayer(excludePlayer) == pvpQueue \ {excludePlayer}

\* POST /api/pvp/matchmake, up to findMatchForPlayer: a player with a match
\* that is not finished gets it back (activated when both sides are ready).
MatchmakeBegin(h, name) ==
  /\ hnd[h].pc = "idle"
  /\ matchmakes < MaxMatchmakes
  /\ IF findMatchForPlayer(name) # {}
     THEN /\ \E m \in findMatchForPlayer(name) :
               LET existingMatch == pvpMatches[m] IN
               IF /\ existingMatch.Status = "waiting"
                  /\ existingMatch.Ready1 /\ existingMatch.Ready2
               THEN /\ pvpMatches' =
                         [pvpMatches EXCEPT ![m].Status = "active"]
                    /\ pvpPhase' =
                         [pvpPhase EXCEPT ![existingMatch.Player1] = "in-game",
                                          ![existingMatch.Player2] = "in-game"]
               ELSE UNCHANGED <<pvpMatches, pvpPhase>>
          /\ UNCHANGED hnd
     ELSE /\ hnd' = [hnd EXCEPT ![h] = [IdleHandler EXCEPT !.pc = "find",
                                                           !.player = name]]
          /\ UNCHANGED <<pvpMatches, pvpPhase>>
  /\ matchmakes' = matchmakes + 1
  /\ UNCHANGED <<pvpQueue, accepted, hpUpdates, duel, lobby, calc, auto>>

\* waitingPlayer := pvpMatchmaker.findWaitingPlayer(playerName)
MatchmakeFind(h) ==
  /\ hnd[h].pc = "find"
  /\ IF findWaitingPlayer(hnd[h].player) = {}
     THEN hnd' = [hnd EXCEPT ![h].pc = "add"]
     ELSE \E waitingPlayer \in findWaitingPlayer(hnd[h].player) :
            hnd' = [hnd EXCEPT ![h].pc = "create", ![h].opp = waitingPlayer]
  /\ UNCHANGED <<pvpQueue, pvpMatches, pvpPhase, accepted, hpUpdates,
                 duel, lobby, calc, auto, matchmakes>>

\* No opponent found: addToQueue, respond "queued".
MatchmakeAdd(h) ==
  /\ hnd[h].pc = "add"
  /\ pvpQueue' = pvpQueue \cup {hnd[h].player}
  /\ hnd' = [hnd EXCEPT ![h] = IdleHandler]
  /\ UNCHANGED <<pvpMatches, pvpPhase, accepted, hpUpdates,
                 duel, lobby, calc, auto, matchmakes>>

\* createMatch(playerName, waitingPlayer.name): a waiting match whose turn is
\* the requester's, without player data yet.
createMatch(player1, player2) ==
  [Player1 |-> player1, Player2 |-> player2, Status |-> "waiting",
   Turn |-> player1, HP1 |-> 0, HP2 |-> 0, Ready1 |-> FALSE,
   Ready2 |-> FALSE]

MatchmakeCreate(h) ==
  /\ hnd[h].pc = "create"
  /\ Len(pvpMatches) < MaxPvPMatches
  /\ pvpMatches' = Append(pvpMatches, createMatch(hnd[h].player, hnd[h].opp))
  /\ accepted' = Append(accepted, <<>>)
  /\ hpUpdates' = Append(hpUpdates, 0)
  /\ hnd' = [hnd EXCEPT ![h].pc = "activate", ![h].match = Len(pvpMatches) + 1]
  /\ UNCHANGED <<pvpQueue, pvpPhase, duel, lobby, calc, auto, matchmakes>>

\* The player data of both sides is stored (both Ready) and the match is
\* activated.
MatchmakeActivate(h) ==
  /\ hnd[h].pc = "activate"
  /\ LET m == hnd[h].match IN
     /\ pvpMatches' = [pvpMatches EXCEPT ![m].HP1 = MaxPvPHP,
                                         ![m].HP2 = MaxPvPHP,
                                         ![m].Ready1 = TRUE,
                                         ![m].Ready2 = TRUE,
                                         ![m].Status = "active"]
     /\ pvpPhase' = [pvpPhase EXCEPT ![pvpMatches[m].Player1] = "in-game",
                                     ![pvpMatches[m].Player2] = "in-game"]
  /\ hnd' = [hnd EXCEPT ![h].pc = "remove"]
  /\ UNCHANGED <<pvpQueue, accepted, hpUpdates, duel, lobby, calc, auto, matchmakes>>

\* removeFromQueue(waitingPlayer.name), respond "match_created".
MatchmakeRemove(h) ==
  /\ hnd[h].pc = "remove"
  /\ pvpQueue' = pvpQueue \ {hnd[h].opp}
  /\ hnd' = [hnd EXCEPT ![h] = IdleHandler]
  /\ UNCHANGED <<pvpMatches, pvpPhase, accepted, hpUpdates,
                 duel, lobby, calc, auto, matchmakes>>

\* POST /api/pvp/action/{id}, up to the checks: the match must be active and
\* it must be the requester's turn; an accepted request goes on to resolve.
ActionCheck(h, m, player) ==
  /\ hnd[h].pc = "idle"
  /\ m \in DOMAIN pvpMatches
  /\ pvpMatches[m].Status = "active"
  /\ pvpMatches[m].Turn = player
  /\ player \in {pvpMatches[m].Player1, pvpMatches[m].Player2}
  /\ Len(accepted[m]) < MaxPvPActions
  /\ accepted' = [accepted EXCEPT ![m] = Append(@, player)]
  /\ hnd' = [hnd EXCEPT ![h] = [IdleHandler EXCEPT !.pc = "resolve",
                                                   !.player = player,
                                                   !.match = m]]
  /\ UNCHANGED <<pvpQueue, pvpMatches, pvpPhase, hpUpdates,
                 duel, lobby, calc, auto, matchmakes>>

\* A request that fails a check is answered with an error and changes
\* nothing.
ActionReject(h, m, player) ==
  /\ hnd[h].pc = "idle"
  /\ m \in DOMAIN pvpMatches
  /\ pvpMatches[m].Status # "active" \/ pvpMatches[m].Turn # player
  /\ UNCHANGED vars

\* result := game.ResolveShooting(...); defenderData.HP = max(0, HP - damage).
ActionResolve(h) ==
  /\ hnd[h].pc = "resolve"
  /\ LET m == hnd[h].match
         attackerIs1 == hnd[h].player = pvpMatches[m].Player1
         HP == IF attackerIs1 THEN pvpMatches[m].HP2 ELSE pvpMatches[m].HP1
     IN \E DamageTotal \in 0..MaxPvPDamage :
          LET newHP == IF HP - DamageTotal < 0 THEN 0 ELSE HP - DamageTotal
          IN /\ pvpMatches' =
                  IF attackerIs1
                  THEN [pvpMatches EXCEPT ![m].HP2 = newHP]
                  ELSE [pvpMatches EXCEPT ![m].HP1 = newHP]
             /\ hpUpdates' = [hpUpdates EXCEPT ![m] = @ + 1]
  /\ hnd' = [hnd EXCEPT ![h].pc = "finish"]
  /\ UNCHANGED <<pvpQueue, pvpPhase, accepted, duel, lobby, calc, auto, matchmakes>>

\* Check for victory, else switch turns.
ActionFinish(h) ==
  /\ hnd[h].pc = "finish"
  /\ LET m == hnd[h].match
         match == pvpMatches[m]
         defenderHP == IF hnd[h].player = match.Player1
                       THEN match.HP2 ELSE match.HP1
     IN IF defenderHP <= 0
        THEN /\ pvpMatches' = [pvpMatches EXCEPT ![m].Status = "finished"]
             /\ pvpPhase' = [pvpPhase EXCEPT ![match.Player1] = "idle",
                                             ![match.Player2] = "idle"]
        ELSE /\ pvpMatches' =
                  [pvpMatches EXCEPT ![m].Turn =
                     IF match.Turn = match.Player1
                     THEN match.Player2 ELSE match.Player1]
             /\ UNCHANGED pvpPhase
  /\ hnd' = [hnd EXCEPT ![h] = IdleHandler]
  /\ UNCHANGED <<pvpQueue, accepted, hpUpdates, duel, lobby, calc, auto, matchmakes>>

PvPNext ==
  \/ \E h \in Handlers, name \in PvPPlayers : MatchmakeBegin(h, name)
  \/ \E h \in Handlers : MatchmakeFind(h)
  \/ \E h \in Handlers : MatchmakeAdd(h)
  \/ \E h \in Handlers : MatchmakeCreate(h)
  \/ \E h \in Handlers : MatchmakeActivate(h)
  \/ \E h \in Handlers : MatchmakeRemove(h)
  \/ \E h \in Handlers, m \in 1..MaxPvPMatches, player \in PvPPlayers :
       ActionCheck(h, m, player)
  \/ \E h \in Handlers, m \in 1..MaxPvPMatches, player \in PvPPlayers :
       ActionReject(h, m, player)
  \/ \E h \in Handlers : ActionResolve(h)
  \/ \E h \in Handlers : ActionFinish(h)

PvPSpec == PvPStart /\ [][PvPNext]_vars

\* C34: in a PvP match accepted actions strictly alternate between the two
\* players in every interleaving of concurrent requests (no two consecutive
\* accepted actions are by the same player), and each accepted action
\* reduces the defender's HP at most once.
C34_PvPActionsAlternate ==
  \A m \in DOMAIN accepted :
    /\ \A i \in 1..(Len(accepted[m]) - 1) :
         accepted[m][i] # accepted[m][i + 1]
    /\ hpUpdates[m] <= Len(accepted[m])

\* No matchmake request is being handled.
NoMatchmakeInFlight ==
  \A h \in Handlers : hnd[h].pc \notin {"find", "add", "create", "activate",
                                        "remove"}

\* C35: under any interleaving of concurrent matchmake requests no
\* participant is a member of two non-finished PvP matches at the same time,
\* and, once the requests are answered, a participant placed in a match is no
\* longer in the waiting queue.
C35_OneMatchPerParticipant ==
  \A p \in PvPPlayers :
    /\ Cardinality(findMatchForPlayer(p)) <= 1
    /\ (NoMatchmakeInFlight /\ findMatchForPlayer(p) # {}) => p \notin pvpQueue

\* ---- The auto-resolving Room of the API server (src/cmd/api/main.go) ----
\* attack(r) runs under roomsMu, started by a timer after each attack; it
\* resolves the first weapon of the current player's unit, saves included.

\* Units as findUnit returns them, each with its first weapon (NoAutoWeapon:
\* the unit has none).
NoAutoWeapon ==
  [Attacks |-> 0, BS |-> 0, S |-> 0, AP |-> 0, D |-> 0,
   Torrent |-> FALSE, LethalHits |-> FALSE, SustainedHits |-> 0]
AutoUnits ==
  {[W |-> 3, T |-> 4, Sv |-> 4, InvSv |-> 0, DamageRed |-> 0, FNP |-> 0,
    weapon |-> [NoAutoWeapon EXCEPT !.Attacks = 2, !.BS = 4, !.S = 4, !.D = 2]],
   [W |-> 2, T |-> 3, Sv |-> 3, InvSv |-> 4, DamageRed |-> 1, FNP |-> 5,
    weapon |-> [NoAutoWeapon EXCEPT !.Attacks = 1, !.BS = 3, !.S = 5, !.AP = 1,
                                !.D = 3, !.SustainedHits = 1]],
   [W |-> 1, T |-> 8, Sv |-> 6, InvSv |-> 0, DamageRed |-> 0, FNP |-> 0,
    weapon |-> [NoAutoWeapon EXCEPT !.Attacks = 1, !.BS = 2, !.S = 4, !.D = 1,
                                !.Torrent = TRUE]],
   [W |-> 2, T |-> 4, Sv |-> 5, InvSv |-> 0, DamageRed |-> 0, FNP |-> 0,
    weapon |-> NoAutoWeapon]}

\* createRoom: the wounds of both players from their units, player 1 first.
AutoInit ==
  /\ DuelIdle /\ LobbyInit /\ CalcIdle /\ PvPInit
  /\ autoUnit \in [1..2 -> AutoUnits]
  /\ autoWounds = [p \in 1..2 |-> autoUnit[p].W]
  /\ CurrentPlayer = 1
  /\ autoWinner = 0
  /\ autoTurn = 1

\* Roll to hit.
AutoHits(weapon, rolls) ==
  SumTo([i \in DOMAIN rolls |->
           IF weapon.Torrent THEN 1
           ELSE IF rolls[i] >= weapon.BS \/ (weapon.LethalHits /\ rolls[i] = 6)
                THEN 1 + (IF weapon.SustainedHits > 0 /\ rolls[i] = 6
                          THEN weapon.SustainedHits ELSE 0)
                ELSE 0], Len(rolls))

needToWound(S, T) ==
  IF S >= T * 2 THEN 2
  ELSE IF S > T THEN 3
  ELSE IF S = T THEN 4
  ELSE IF S * 2 <= T THEN 6
  ELSE 5

\* Auto-resolve saves: the threshold.
AutoSave(weapon, defenderUnit) ==
  LET save == defenderUnit.Sv + weapon.AP
  IN clamp(2, 6, IF defenderUnit.InvSv > 0 /\ defenderUnit.InvSv < save
                 THEN defenderUnit.InvSv ELSE save)

\* Damage of the unsaved wounds after Damage Reduction.
AutoDamage(weapon, defenderUnit, unsavedWounds) ==
  LET totalDamage == unsavedWounds * weapon.D
  IN IF defenderUnit.DamageRed > 0
     THEN clamp(0, totalDamage,
                totalDamage - defenderUnit.DamageRed * unsavedWounds)
     ELSE totalDamage

\* FNP rolls: how many of the points of damage can be ignored.
AutoFNP(defenderUnit, totalDamage) ==
  IF defenderUnit.FNP > 0 /\ totalDamage > 0
  THEN (IF defenderUnit.FNP > 6 THEN {0}
        ELSE IF defenderUnit.FNP = 1 THEN {totalDamage}
        ELSE 0..totalDamage)
  ELSE {0}

\* End turn.
AutoEndTurn ==
  /\ CurrentPlayer' = 3 - CurrentPlayer
  /\ autoTurn' = autoTurn + 1

\* attack(r) and resolveWeaponStep for the current player.
AutoAttack ==
  /\ autoUnit # <<>>
  /\ autoWinner = 0
  /\ autoTurn <= MaxAutoTurns
  /\ LET attacker == CurrentPlayer
         defender == 3 - CurrentPlayer
         weapon == autoUnit[attacker].weapon
         defenderUnit == autoUnit[defender]
     IN IF weapon = NoAutoWeapon
        THEN AutoEndTurn /\ UNCHANGED <<autoWounds, autoWinner>>
        ELSE
          \E hitRolls \in [1..weapon.Attacks -> D6] :
          LET hits == AutoHits(weapon, hitRolls) IN
          \E woundRolls \in [1..hits -> D6] :
          LET need == needToWound(weapon.S, defenderUnit.T)
              wounds == Count([i \in DOMAIN woundRolls |->
                                 woundRolls[i] >= need])
              save == AutoSave(weapon, defenderUnit)
          IN
          \E saveRolls \in [1..wounds -> D6] :
          LET savedWounds == Count([i \in DOMAIN saveRolls |->
                                      saveRolls[i] >= save])
              unsavedWounds == wounds - savedWounds
              totalDamage == AutoDamage(weapon, defenderUnit, unsavedWounds)
          IN
          \E fnpSaves \in AutoFNP(defenderUnit, totalDamage) :
          LET dealt == IF hits = 0 \/ wounds = 0 \/ unsavedWounds <= 0
                       THEN 0
                       ELSE totalDamage - fnpSaves
              remaining == IF dealt > 0 THEN autoWounds[defender] - dealt
                           ELSE autoWounds[defender]
          IN /\ autoWounds' = [autoWounds EXCEPT ![defender] = remaining]
             /\ autoWinner' =
                  IF /\ hits # 0 /\ wounds # 0 /\ unsavedWounds > 0
                     /\ remaining <= 0
                  THEN attacker ELSE autoWinner
             /\ AutoEndTurn
  /\ UNCHANGED <<autoUnit, duel, lobby, calc, pvp>>

AutoNext == AutoAttack

AutoSpec == AutoInit /\ [][AutoNext]_vars

\* C36: in the auto-resolving Room a player's wounds-remaining never goes
\* below 0 after any sequence of attacks, also when the damage of the final
\* attack exceeds the defender's remaining wounds.
C36_AutoWoundsNeverNegative ==
  \A p \in DOMAIN autoWounds : autoWounds[p] >= 0

====
